---- MODULE Spec2Model ----
(***************************************************************************)
(* MES auto-trader (mes_v2_auto.py: mood reversal, mes_v3_auto.py:         *)
(* impulse breakout): the backtest simulator run_backtest and the live     *)
(* signal builder build_mes_signal.                                        *)
(*                                                                         *)
(* Number representation.  Prices are integers in units of 1e-5 of the     *)
(* quote currency (PriceScale units per 1.0), so one pip of a non-JPY pair *)
(* is 10 units and one pip of a JPY pair is 1000 units.  Every price the   *)
(* model draws is a whole number of pips, so pips_diff divides exactly.    *)
(* Ratios (volRs, rngRs, strength, bodyR) are in hundredths, the sentiment *)
(* score in tenths, the ATR factors in tenths.  A quotient the code keeps  *)
(* as a float (rr) is kept as the pair <<numerator, denominator>>.         *)
(* A bar's timestamp is its position in the M15 series.                    *)
(***************************************************************************)
EXTENDS Integers, Sequences, FiniteSets, TLC

VARIABLES
    engine,           \* "v2" (mes_v2_auto.py) or "v3" (mes_v3_auto.py)
    instrument,       \* the instrument of the current loop / evaluation
    pc,               \* position of control of the operation the specification runs
    i,                \* index of the next M15 bar of the series
    m15,              \* tail of the M15 series read so far (most recent last)
    prev_flags,       \* mood flags of the previous M15 row (the .shift(1) series)
    in_position, pos_side, entry_price, sl_price, tp_price, entry_time,
    last_atr_pips,    \* v2 only
    risk_pips_entry,  \* v3 only
    all_trades,       \* the ledger
    cur,              \* the aligned row at the evaluation bar of a single evaluation
    sig,              \* the MesSignal returned by build_mes_signal, or NoSignalYet
    nav,              \* cmd_auto's nav = get_nav(), passed to build_mes_signal
    creds,            \* cmd_auto: OANDA_API_KEY and OANDA_ACCOUNT_ID are both set
    now,              \* cmd_auto: [wd, hour] of datetime.now()
    open_trades,      \* cmd_auto: get_open_trade_count(), or NotRead
    inst_idx,         \* cmd_auto: position of `for inst in INSTRUMENTS`
    signals,          \* cmd_auto: the list signals
    trades_sent,      \* cmd_auto: the list trades_sent
    calls,            \* the network calls made so far, in order
    bars,             \* number of bars of the fetched M15, H1 and H4 series
    fn_in,            \* arguments of a function evaluated on its own
    fn_out,           \* what it returned
    series,           \* run_backtest: the rows the candle source holds, per instrument
    inst_list,        \* run_backtest: [pair] if pair else INSTRUMENTS
    end_ts,           \* run_backtest: end = datetime.now(UTC), as a bar time
    runs,             \* the runs of run_backtest finished so far
    req,              \* oanda_bridge: the event and what the handler's calls meet
    resp,             \* oanda_bridge: the response of lambda_handler
    logged            \* oanda_bridge: the trades written by log_trade

\* the state of one auto cycle and of a function evaluated on its own
cycle == <<creds, now, open_trades, inst_idx, signals, trades_sent, calls, bars>>
fn == <<fn_in, fn_out>>
\* the state of the runs of run_backtest, and of one call of the bridge handler
run == <<series, inst_list, end_ts, runs>>
bridge == <<req, resp, logged>>

vars == <<engine, instrument, pc, i, m15, prev_flags, in_position, pos_side,
          entry_price, sl_price, tp_price, entry_time, last_atr_pips,
          risk_pips_entry, all_trades, cur, sig, nav, cycle, fn, run, bridge>>

---------------------------------------------------------------------------
(* Configuration *)

PriceScale == 100000

RISK_PERCENT == 25
MAX_UNITS_CLAMP == 15000
MIN_UNITS_FLOOR == 1000
MIN_ATR_PIPS == 8
SSI_ENTRY_THRESHOLD == 10
IMPULSE_LOOKBACK == 3
RR_TARGET == 2
RR_V2 == 2

INSTRUMENTS == <<"EUR_USD", "GBP_USD", "USD_CAD", "USD_CHF", "AUD_USD", "NZD_USD">>

JpyInstruments == {"USD_JPY", "EUR_JPY", "GBP_JPY"}

---------------------------------------------------------------------------
(* Bounds of the model *)

MaxBarsV2 == 4
MaxBarsV3 == 5

Max2(a, b) == IF a >= b THEN a ELSE b
Min2(a, b) == IF a <= b THEN a ELSE b
Abs(a) == IF a >= 0 THEN a ELSE -a

---------------------------------------------------------------------------
(* Pip helpers *)

PipStep(inst) == IF inst \in JpyInstruments THEN PriceScale \div 100
                                            ELSE PriceScale \div 10000

pips_diff(inst, price_diff) == price_diff \div PipStep(inst)

price_from_pips_up(inst, price, pips, direction) ==
    price + pips * PipStep(inst)

price_from_pips(inst, price, pips, direction) ==
    LET step == PipStep(inst)
        diff == pips * step
    IN  IF direction = "up" THEN price + diff ELSE price - diff

---------------------------------------------------------------------------
(* Mood classifier and sentiment score (v2) *)

mood_flags(volRs, rngRs, strength, bull, bear, bodyR) ==
    [fearCap   |-> bear /\ volRs > 180,
     hopeConf  |-> bull /\ volRs > 110 /\ strength > 60,
     greed     |-> bull /\ volRs > 180 /\ rngRs > 130 /\ bodyR > 80,
     indecFear |-> (rngRs < 70 \/ bodyR < 25) \/ (bear /\ volRs > 120)]

score_tf(h, f) == (IF h THEN 15 ELSE 0) - (IF f THEN 15 ELSE 0)

Clip(v, lo, hi) == IF v < lo THEN lo ELSE IF v > hi THEN hi ELSE v

ssi_from_moods_clip_1(hope15, fear15, hope1h, fear1h, hope4h, fear4h) ==
    Clip((score_tf(hope15, fear15) + score_tf(hope1h, fear1h)
            + score_tf(hope4h, fear4h)) \div 3, -10, 10)
ssi_from_moods(hope15, fear15, hope1h, fear1h, hope4h, fear4h) ==
    LET s15 == score_tf(hope15, fear15)
        s1h == score_tf(hope1h, fear1h)
        s4h == score_tf(hope4h, fear4h)
    IN  Clip((s15 + s1h + s4h) \div 3, -30, 30)

---------------------------------------------------------------------------
(* One row of the aligned series at an M15 timestamp: the M15 candle, the  *)
(* forward-filled 1H ATR, the forward-filled 1H/4H close and EMA200, the   *)
(* M15 metric row and the forward-filled 1H/4H mood flags.                 *)

Candles(opens, closes) ==
    {[open |-> o, high |-> Max2(o, c), low |-> Min2(o, c), close |-> c] :
        o \in opens, c \in closes}

Rows(candles, atrs, nans, closes1h, closes4h, emas, metrics, flags1h, flags4h) ==
    {[bar |-> b, atr_isna |-> n, atr1h_a |-> a,
      close1h_a |-> c1, ema1h_a |-> e, close4h_a |-> c4, ema4h_a |-> e,
      volRs15 |-> m.volRs, rngRs15 |-> m.rngRs, str15 |-> m.strength,
      bodyR15 |-> m.bodyR, h1 |-> f1, h4 |-> f4] :
        b \in candles, a \in atrs, n \in nans, c1 \in closes1h, c4 \in closes4h,
        e \in emas, m \in metrics, f1 \in flags1h, f4 \in flags4h}

MetricRows(vols, rngs, strengths, bodies) ==
    [volRs : vols, rngRs : rngs, strength : strengths, bodyR : bodies]

NoFlags == [fear |-> FALSE, hope |-> FALSE, greed |-> FALSE]

Flags15(x) ==
    LET bull15 == x.bar.close > x.bar.open
        bear15 == x.bar.close < x.bar.open
    IN  mood_flags(x.volRs15, x.rngRs15, x.str15, bull15, bear15, x.bodyR15)

ssi_series(x) == ssi_from_moods(Flags15(x).hopeConf, Flags15(x).fearCap,
                                x.h1.hope, x.h1.fear, x.h4.hope, x.h4.fear)

trend_up_1h(x) == x.close1h_a > x.ema1h_a
trend_up(x)   == (x.close1h_a > x.ema1h_a) /\ (x.close4h_a > x.ema4h_a)
\* the down-trend test without its direction
trend_down_undirected(x) == (x.close1h_a # x.ema1h_a) /\ (x.close4h_a # x.ema4h_a)
trend_down(x) == (x.close1h_a < x.ema1h_a) /\ (x.close4h_a < x.ema4h_a)

\* what the .shift(1).fillna(False) series show at the bar after row x
ShiftedFlags(x) ==
    [fear15 |-> Flags15(x).fearCap, greed15 |-> Flags15(x).greed,
     fear1h_a |-> x.h1.fear, greed1h_a |-> x.h1.greed,
     fear4h_a |-> x.h4.fear, greed4h_a |-> x.h4.greed]

NoShiftedFlags ==
    [fear15 |-> FALSE, greed15 |-> FALSE, fear1h_a |-> FALSE, greed1h_a |-> FALSE,
     fear4h_a |-> FALSE, greed4h_a |-> FALSE]

was_fear_cap(pf) == pf.fear15 \/ pf.fear1h_a \/ pf.fear4h_a
was_greed(pf)    == pf.greed15 \/ pf.greed1h_a \/ pf.greed4h_a

---------------------------------------------------------------------------
(* run_backtest: the loop's local state as a record *)

Locals ==
    [in_position |-> in_position, pos_side |-> pos_side, entry_price |-> entry_price,
     sl_price |-> sl_price, tp_price |-> tp_price, entry_time |-> entry_time,
     last_atr_pips |-> last_atr_pips, risk_pips_entry |-> risk_pips_entry,
     all_trades |-> all_trades]

NoTime == -1

FlatLocals ==
    [in_position |-> FALSE, pos_side |-> "", entry_price |-> 0, sl_price |-> 0,
     tp_price |-> 0, entry_time |-> NoTime, last_atr_pips |-> 0,
     risk_pips_entry |-> 0, all_trades |-> <<>>]

BacktestTrade(inst, side, t_in, t_out, p_in, p_out, sl, tp, result, rr, pips) ==
    [instrument |-> inst, side |-> side, entry_time |-> t_in, exit_time |-> t_out,
     entry_price |-> p_in, exit_price |-> p_out, sl_price |-> sl, tp_price |-> tp,
     result |-> result, rr |-> rr, pips |-> pips]

\* the same test with the target looked at first
manage_position_target_first(side, price_high, price_low, sl, tp) ==
    IF side = "BUY"
    THEN IF price_high >= tp THEN [hit |-> TRUE, exit_price |-> tp, result |-> "TP"]
         ELSE IF price_low <= sl THEN [hit |-> TRUE, exit_price |-> sl, result |-> "SL"]
         ELSE [hit |-> FALSE, exit_price |-> 0, result |-> ""]
    ELSE IF price_low <= tp THEN [hit |-> TRUE, exit_price |-> tp, result |-> "TP"]
         ELSE IF price_high >= sl THEN [hit |-> TRUE, exit_price |-> sl, result |-> "SL"]
         ELSE [hit |-> FALSE, exit_price |-> 0, result |-> ""]

\* the stop/target test on a bar while a position is open (stop first)
manage_position(side, price_high, price_low, sl, tp) ==
    IF side = "BUY"
    THEN IF price_low <= sl THEN [hit |-> TRUE, exit_price |-> sl, result |-> "SL"]
         ELSE IF price_high >= tp THEN [hit |-> TRUE, exit_price |-> tp, result |-> "TP"]
         ELSE [hit |-> FALSE, exit_price |-> 0, result |-> ""]
    ELSE IF price_high >= sl THEN [hit |-> TRUE, exit_price |-> sl, result |-> "SL"]
         ELSE IF price_low <= tp THEN [hit |-> TRUE, exit_price |-> tp, result |-> "TP"]
         ELSE [hit |-> FALSE, exit_price |-> 0, result |-> ""]

\* the pip move without its sign
pip_move_of_abs(inst, side, p_in, p_out) == pips_diff(inst, Abs(p_out - p_in))

pip_move_of(inst, side, p_in, p_out) ==
    pips_diff(inst, IF side = "BUY" THEN p_out - p_in ELSE p_in - p_out)

\* v2: rr of the trade closed at the end of the data
rr_v2_timeout(pip_move, last_atr) ==
    LET atr_for_rr == IF last_atr > 0 THEN last_atr ELSE 1
    IN  <<pip_move, atr_for_rr>>

\* v3: rr of every trade
rr_v3(pip_move, risk_entry) ==
    IF risk_entry > 0 THEN <<pip_move, risk_entry>> ELSE <<0, 1>>

long_signal_bt_v2_no_floor(x, pf, atr_pips) ==
    /\ was_fear_cap(pf) /\ Flags15(x).hopeConf /\ ssi_series(x) >= SSI_ENTRY_THRESHOLD
    /\ x.volRs15 >= 110 /\ x.rngRs15 >= 110
    /\ trend_up(x)

long_signal_bt_v2(x, pf, atr_pips) ==
    /\ was_fear_cap(pf) /\ Flags15(x).hopeConf /\ ssi_series(x) >= SSI_ENTRY_THRESHOLD
    /\ x.volRs15 >= 110 /\ x.rngRs15 >= 110
    /\ trend_up(x) /\ atr_pips >= MIN_ATR_PIPS

\* the short signal without the look at the previous bar's greed
short_signal_bt_v2_no_prior(x, pf, atr_pips) ==
    /\ (Flags15(x).indecFear \/ Flags15(x).fearCap)
    /\ ssi_series(x) <= -SSI_ENTRY_THRESHOLD
    /\ x.volRs15 >= 110 /\ x.rngRs15 >= 110
    /\ trend_down(x) /\ atr_pips >= MIN_ATR_PIPS

short_signal_bt_v2(x, pf, atr_pips) ==
    /\ was_greed(pf) /\ (Flags15(x).indecFear \/ Flags15(x).fearCap)
    /\ ssi_series(x) <= -SSI_ENTRY_THRESHOLD
    /\ x.volRs15 >= 110 /\ x.rngRs15 >= 110
    /\ trend_down(x) /\ atr_pips >= MIN_ATR_PIPS

\* v2: `if in_position:` branch of the loop body (s1: locals after last_atr_pips is set)
manage_v2(inst, s1, x, ts, atr_pips) ==
    LET m == manage_position(s1.pos_side, x.bar.high, x.bar.low, s1.sl_price, s1.tp_price)
        pip_move == pip_move_of(inst, s1.pos_side, s1.entry_price, m.exit_price)
        atr_for_rr == IF s1.last_atr_pips > 0 THEN s1.last_atr_pips ELSE atr_pips
        rr == IF atr_for_rr > 0 THEN <<pip_move, atr_for_rr>> ELSE <<0, 1>>
    IN  IF ~m.hit THEN s1
        ELSE [s1 EXCEPT
                !.all_trades = Append(@, BacktestTrade(inst, s1.pos_side,
                      s1.entry_time, ts, s1.entry_price, m.exit_price,
                      s1.sl_price, s1.tp_price, m.result, rr, pip_move)),
                !.in_position = FALSE,
                !.pos_side = ""]

\* v2: the entry part of the loop body
enter_v2(inst, s1, x, ts, pf, atr_pips) ==
    LET price_close == x.bar.close
        long_signal == long_signal_bt_v2(x, pf, atr_pips)
        short_signal == short_signal_bt_v2(x, pf, atr_pips)
        tp_pips == atr_pips * RR_V2
        sl_pips == atr_pips
    IN  IF ~long_signal /\ ~short_signal THEN s1
        ELSE IF long_signal
        THEN [s1 EXCEPT
                !.entry_price = price_close, !.pos_side = "BUY",
                !.tp_price = price_from_pips(inst, price_close, tp_pips, "up"),
                !.sl_price = price_from_pips(inst, price_close, sl_pips, "down"),
                !.in_position = TRUE, !.entry_time = ts]
        ELSE [s1 EXCEPT
                !.entry_price = price_close, !.pos_side = "SELL",
                !.tp_price = price_from_pips(inst, price_close, tp_pips, "down"),
                !.sl_price = price_from_pips(inst, price_close, sl_pips, "up"),
                !.in_position = TRUE, !.entry_time = ts]

\* the loop body without the `continue` of the position branch: the entry
\* logic also runs on a bar on which a position is open or was just closed
LoopBodyV2_reenter(inst, s, x, ts, pf) ==
    IF x.atr_isna THEN s
    ELSE LET atr_pips == pips_diff(inst, x.atr1h_a)
             s1 == [s EXCEPT !.last_atr_pips = atr_pips]
             s2 == IF s.in_position THEN manage_v2(inst, s1, x, ts, atr_pips) ELSE s1
         IN  enter_v2(inst, s2, x, ts, pf, atr_pips)

\* v2: the body of `for ts in m15.index`, on row x with timestamp ts
LoopBodyV2(inst, s, x, ts, pf) ==
    IF x.atr_isna THEN s
    ELSE LET atr_pips == pips_diff(inst, x.atr1h_a)
             s1 == [s EXCEPT !.last_atr_pips = atr_pips]
         IN  IF s.in_position THEN manage_v2(inst, s1, x, ts, atr_pips)
                              ELSE enter_v2(inst, s1, x, ts, pf, atr_pips)

\* the open position closed at its stop instead of the last close
TimeoutV2_at_stop(inst, s, last_close, last_ts) ==
    LET pip_move == pip_move_of(inst, s.pos_side, s.entry_price, s.sl_price)
    IN  BacktestTrade(inst, s.pos_side, s.entry_time, last_ts, s.entry_price,
                      s.sl_price, s.sl_price, s.tp_price, "SL",
                      rr_v2_timeout(pip_move, s.last_atr_pips), pip_move)

\* the trade appended after the loop when a position is still open
TimeoutV2(inst, s, last_close, last_ts) ==
    LET pip_move == pip_move_of(inst, s.pos_side, s.entry_price, last_close)
    IN  BacktestTrade(inst, s.pos_side, s.entry_time, last_ts, s.entry_price,
                      last_close, s.sl_price, s.tp_price, "TIMEOUT",
                      rr_v2_timeout(pip_move, s.last_atr_pips), pip_move)

---------------------------------------------------------------------------
(* v3: breakout logic.  w is the tail of the M15 series ending at the      *)
(* evaluation bar; BarBack(w, k) is the bar k places before the last one.  *)

BarBack(w, k) == w[Len(w) - k]

\* impulse + acceleration filter over recent = the last IMPULSE_LOOKBACK bars
impulse_filter(inst, w, atr_pips) ==
    LET IMPULSE_MIN_AVG_RANGE_ATR_FACTOR == 4
        IMPULSE_MIN_PIPS == 10
        is_down(b) == b.close < b.open
        is_up(b)   == b.close > b.open
        recent == {BarBack(w, k) : k \in 0..(IMPULSE_LOOKBACK - 1)}
        first_open == BarBack(w, IMPULSE_LOOKBACK - 1).open
        last_close == BarBack(w, 0).close
        up_seq == \A b \in recent : is_up(b)
        down_seq == \A b \in recent : is_down(b)
        move_pips == pips_diff(inst, last_close - first_open)
        range_sum == BarBack(w, 0).high - BarBack(w, 0).low
                     + BarBack(w, 1).high - BarBack(w, 1).low
                     + BarBack(w, 2).high - BarBack(w, 2).low
        impulse_ok == move_pips >= IMPULSE_MIN_PIPS
        \* avg_range_pips >= 0.4 * atr_pips, both sides times 10 * lookback
        accel_ok == 10 * pips_diff(inst, range_sum)
                       >= IMPULSE_MIN_AVG_RANGE_ATR_FACTOR * IMPULSE_LOOKBACK * atr_pips
    IN  (up_seq \/ down_seq) /\ impulse_ok /\ accel_ok

\* body >= 0.3 * atr_now, both sides times 10
body_ok(b, atr_now) ==
    LET BREAKOUT_BODY_ATR_FACTOR == 3
    IN
                       10 * Abs(b.close - b.open) >= BREAKOUT_BODY_ATR_FACTOR * atr_now

\* run_backtest: prior = m15.iloc[i - 3 : i - 1]
prior_bt(w) == {BarBack(w, 3), BarBack(w, 2)}

\* compute_breakout_for_last_bar: prior = m15.iloc[-3:-1]
prior_live(w) == {BarBack(w, 2), BarBack(w, 1)}

hi_swing_of(prior) == CHOOSE h \in {b.high : b \in prior} : \A b \in prior : b.high <= h
lo_swing_of(prior) == CHOOSE l \in {b.low : b \in prior} : \A b \in prior : b.low >= l

\* v3: `if in_position:` branch of the loop body
manage_v3(inst, s, x, ts) ==
    LET m == manage_position(s.pos_side, x.bar.high, x.bar.low, s.sl_price, s.tp_price)
        pip_move == pip_move_of(inst, s.pos_side, s.entry_price, m.exit_price)
        rr == rr_v3(pip_move, s.risk_pips_entry)
    IN  IF ~m.hit THEN s
        ELSE [s EXCEPT
                !.all_trades = Append(@, BacktestTrade(inst, s.pos_side,
                      s.entry_time, ts, s.entry_price, m.exit_price,
                      s.sl_price, s.tp_price, m.result, rr, pip_move)),
                !.in_position = FALSE,
                !.pos_side = ""]

\* v3: the entry part of the loop body; w is the series tail ending at row x
enter_v3(inst, s, x, ts, w) ==
    LET price_close == x.bar.close
        atr_now == x.atr1h_a
        atr_pips == pips_diff(inst, atr_now)
    IN  IF ts < Max2(3, IMPULSE_LOOKBACK - 1) THEN s
        ELSE IF atr_pips < MIN_ATR_PIPS THEN s
        ELSE IF ts - IMPULSE_LOOKBACK + 1 < 0 THEN s
        ELSE IF ~impulse_filter(inst, w, atr_pips) THEN s
        ELSE IF ~body_ok(x.bar, atr_now) THEN s
        ELSE
        LET hi_swing == hi_swing_of(prior_bt(w))
            lo_swing == lo_swing_of(prior_bt(w))
            long_signal == trend_up(x) /\ price_close > hi_swing
            short_signal == trend_down(x) /\ price_close < lo_swing
        IN  IF ~long_signal /\ ~short_signal THEN s
            ELSE IF long_signal
            THEN LET risk == pips_diff(inst, price_close - lo_swing)
                     s1 == [s EXCEPT !.entry_price = price_close, !.pos_side = "BUY",
                                     !.sl_price = lo_swing, !.risk_pips_entry = risk]
                 IN  IF risk <= 0 THEN s1
                     ELSE [s1 EXCEPT
                             !.tp_price = price_from_pips(inst, price_close,
                                                          risk * RR_TARGET, "up"),
                             !.in_position = TRUE, !.entry_time = ts]
            ELSE LET risk == pips_diff(inst, hi_swing - price_close)
                     s1 == [s EXCEPT !.entry_price = price_close, !.pos_side = "SELL",
                                     !.sl_price = hi_swing, !.risk_pips_entry = risk]
                 IN  IF risk <= 0 THEN s1
                     ELSE [s1 EXCEPT
                             !.tp_price = price_from_pips(inst, price_close,
                                                          risk * RR_TARGET, "down"),
                             !.in_position = TRUE, !.entry_time = ts]

\* the v3 loop body without the `continue` after a close: the entry logic
\* also runs on the bar that closed the position
LoopBodyV3_reenter(inst, s, x, ts, w) ==
    IF x.atr_isna THEN s
    ELSE LET s2 == IF s.in_position THEN manage_v3(inst, s, x, ts) ELSE s
         IN  IF s2.in_position THEN s2 ELSE enter_v3(inst, s2, x, ts, w)

\* v3: the body of `for i, ts in enumerate(m15.index)`, on row x at index ts
LoopBodyV3(inst, s, x, ts, w) ==
    IF x.atr_isna THEN s
    ELSE IF s.in_position THEN manage_v3(inst, s, x, ts)
                          ELSE enter_v3(inst, s, x, ts, w)

TimeoutV3(inst, s, last_close, last_ts) ==
    LET pip_move == pip_move_of(inst, s.pos_side, s.entry_price, last_close)
    IN  BacktestTrade(inst, s.pos_side, s.entry_time, last_ts, s.entry_price,
                      last_close, s.sl_price, s.tp_price, "TIMEOUT",
                      rr_v3(pip_move, s.risk_pips_entry), pip_move)

---------------------------------------------------------------------------
(* Position sizing and the live signal builders *)

\* the sizing without the minimum-dollar-per-pip floor
units_clamped_no_min(inst, account_nav, risk_pips) ==
    LET step == PipStep(inst)
        units_raw == IF risk_pips * step > 0
                     THEN (account_nav * RISK_PERCENT * (PriceScale \div 100))
                              \div (risk_pips * step)
                     ELSE 0
    IN  Min2(MAX_UNITS_CLAMP, Max2(MIN_UNITS_FLOOR, units_raw))

\* units_clamped of build_mes_signal; int() keeps the integer part
units_clamped_of(inst, account_nav, risk_pips) ==
    LET MIN_DOLLAR_PER_PIP == 1
        step == PipStep(inst)
        \* risk_amount / per_unit_risk
        \*   = account_nav * (RISK_PERCENT / 100) / (risk_pips * step / PriceScale)
        units_raw == IF risk_pips * step > 0
                     THEN (account_nav * RISK_PERCENT * (PriceScale \div 100))
                              \div (risk_pips * step)
                     ELSE 0
        units_min == (MIN_DOLLAR_PER_PIP * PriceScale) \div step
        units == Max2(units_raw, units_min)
    IN  Min2(MAX_UNITS_CLAMP, Max2(MIN_UNITS_FLOOR, units))

MesSignal(inst, side, entry, sl, tp, atr_pips, tp_pips, ssi, reason, units) ==
    [instrument |-> inst, side |-> side, entry_price |-> entry, sl_price |-> sl,
     tp_price |-> tp, atr_pips |-> atr_pips, tp_pips |-> tp_pips, ssi |-> ssi,
     reason |-> reason, units |-> units]

\* v2 build_mes_signal on the series whose last row is x (pf: the shifted flags)
build_mes_signal_v2(inst, account_nav, x, pf) ==
    LET atr_pips == pips_diff(inst, x.atr1h_a)
        entry == x.bar.close
        ssi_last == ssi_series(x)
        trend_up_now == trend_up(x)
        trend_down_now == trend_down(x)
        long_signal ==
            /\ was_fear_cap(pf) /\ Flags15(x).hopeConf /\ ssi_last >= SSI_ENTRY_THRESHOLD
            /\ x.volRs15 >= 110 /\ x.rngRs15 >= 110 /\ trend_up_now
        short_signal ==
            /\ was_greed(pf) /\ (Flags15(x).indecFear \/ Flags15(x).fearCap)
            /\ ssi_last <= -SSI_ENTRY_THRESHOLD
            /\ x.volRs15 >= 110 /\ x.rngRs15 >= 110 /\ trend_down_now
        tp_pips == atr_pips * RR_V2
        sl_pips == atr_pips
    IN  IF atr_pips < MIN_ATR_PIPS
        THEN MesSignal(inst, "NONE", entry, 0, 0, atr_pips, 0, ssi_last, "ATR too low", 0)
        ELSE IF ~(trend_up_now \/ trend_down_now)
        THEN MesSignal(inst, "NONE", entry, 0, 0, atr_pips, 0, ssi_last,
                       "No 1H+4H EMA200 trend", 0)
        ELSE IF ~long_signal /\ ~short_signal
        THEN MesSignal(inst, "NONE", entry, 0, 0, atr_pips, 0, ssi_last,
                       "No MES v2.1 entry (Fear/Hope/Greed/SSI not met)", 0)
        ELSE IF long_signal
        THEN MesSignal(inst, "BUY", entry,
                       price_from_pips(inst, entry, sl_pips, "down"),
                       price_from_pips(inst, entry, tp_pips, "up"),
                       atr_pips, tp_pips, ssi_last, "MES v2.1.1 Long",
                       units_clamped_of(inst, account_nav, atr_pips))
        ELSE MesSignal(inst, "SELL", entry,
                       price_from_pips(inst, entry, sl_pips, "up"),
                       price_from_pips(inst, entry, tp_pips, "down"),
                       atr_pips, tp_pips, ssi_last, "MES v2.1.1 Short",
                       units_clamped_of(inst, account_nav, atr_pips))

\* v3 helper on the series tail w whose last row is x; nav_now is what get_nav() returns
compute_breakout_for_last_bar(inst, w, x, nav_now) ==
    LET last_close == x.bar.close
        atr_now == x.atr1h_a
        atr_pips == pips_diff(inst, atr_now)
    IN  IF Len(w) < Max2(3, IMPULSE_LOOKBACK)
        THEN MesSignal(inst, "NONE", last_close, 0, 0, 0, 0, 0, "Not enough M15 candles", 0)
        ELSE IF x.atr_isna
        THEN MesSignal(inst, "NONE", last_close, 0, 0, 0, 0, 0,
                       "ATR data not available at last bar", 0)
        ELSE IF atr_pips < MIN_ATR_PIPS
        THEN MesSignal(inst, "NONE", last_close, 0, 0, atr_pips, 0, 0, "ATR too low", 0)
        ELSE IF ~impulse_filter(inst, w, atr_pips)
        THEN MesSignal(inst, "NONE", last_close, 0, 0, atr_pips, 0, 0, "No 3-bar impulse", 0)
        ELSE IF ~body_ok(x.bar, atr_now)
        THEN MesSignal(inst, "NONE", last_close, 0, 0, atr_pips, 0, 0,
                       "Breakout body too small vs ATR", 0)
        ELSE
        LET hi_swing == hi_swing_of(prior_live(w))
            lo_swing == lo_swing_of(prior_live(w))
            long_signal == trend_up(x) /\ last_close > hi_swing
            short_signal == trend_down(x) /\ last_close < lo_swing
            entry == last_close
            side == IF long_signal THEN "BUY" ELSE "SELL"
            sl == IF long_signal THEN lo_swing ELSE hi_swing
            risk_pips == IF long_signal THEN pips_diff(inst, entry - sl)
                                        ELSE pips_diff(inst, sl - entry)
            tp_pips == risk_pips * RR_TARGET
            tp == IF side = "BUY" THEN price_from_pips(inst, entry, tp_pips, "up")
                                  ELSE price_from_pips(inst, entry, tp_pips, "down")
        IN  IF ~long_signal /\ ~short_signal
            THEN MesSignal(inst, "NONE", last_close, 0, 0, atr_pips, 0, 0,
                           "No MES v3.1 breakout (structure/trend mismatch)", 0)
            ELSE IF risk_pips <= 0
            THEN MesSignal(inst, "NONE", entry, 0, 0, atr_pips, 0, 0,
                           "Invalid risk distance (risk_pips <= 0)", 0)
            ELSE MesSignal(inst, side, entry, sl, tp, atr_pips, tp_pips, 0,
                           "MES v3.1 Breakout (impulse)",
                           units_clamped_of(inst, nav_now, risk_pips))

\* the resizing without its guard on the side
build_mes_signal_v3_unguarded(inst, account_nav, w, x, nav_now) ==
    LET s0 == compute_breakout_for_last_bar(inst, w, x, nav_now)
        risk_pips == pips_diff(inst, Abs(s0.entry_price - s0.sl_price))
    IN  [s0 EXCEPT !.units = units_clamped_of(inst, account_nav, risk_pips)]

\* v3 build_mes_signal: the helper's signal, resized with account_nav
build_mes_signal_v3(inst, account_nav, w, x, nav_now) ==
    LET s0 == compute_breakout_for_last_bar(inst, w, x, nav_now)
        risk_pips == IF s0.side = "BUY"
                     THEN pips_diff(inst, s0.entry_price - s0.sl_price)
                     ELSE pips_diff(inst, s0.sl_price - s0.entry_price)
    IN  IF s0.side \in {"BUY", "SELL"} /\ s0.units > 0
        THEN [s0 EXCEPT !.units = units_clamped_of(inst, account_nav, risk_pips)]
        ELSE s0

---------------------------------------------------------------------------
(* The rows the backtest loop is run on *)

CloseLevels == {110000, 110080, 110160, 110480}

LoopAtrs == {0, 80, 240}
HtfCloses == {110000, 110200}
Ema200s == {110100}

StrongRow == MetricRows({200}, {140}, {90}, {90})
NoMetrics == MetricRows({100}, {100}, {0}, {50})

\* atr1h_a is NaN only before the first H1 bar: here, at most on the first M15 bar
NansAt(ts) == IF ts = 0 THEN {FALSE, TRUE} ELSE {FALSE}

\* how many bars of the series the engine still reads: v3 looks three bars back
KeepBars(eng) == IF eng = "v3" THEN 3 ELSE 1

LastBars(w, n) == IF Len(w) <= n THEN w ELSE SubSeq(w, Len(w) - n + 1, Len(w))

NoRow == <<>>
NoSignalYet == <<>>

\* get_open_trade_count() not called yet
NotRead == -1
NoBars == [m15 |-> 0, h1 |-> 0, h4 |-> 0]

\* no auto cycle running, no function under evaluation
NoCycle ==
    /\ creds = TRUE /\ now = [wd |-> 0, hour |-> 0] /\ open_trades = NotRead
    /\ inst_idx = 1 /\ signals = <<>> /\ trades_sent = <<>> /\ calls = <<>>
    /\ bars = NoBars
NoFn == fn_in = <<>> /\ fn_out = <<>>
NoRun == series = <<>> /\ inst_list = <<>> /\ end_ts = 0 /\ runs = <<>>
NoBridge == req = <<>> /\ resp = <<>> /\ logged = <<>>

---------------------------------------------------------------------------
(* run_backtest, one instrument *)

SetLocals(s) ==
    /\ in_position' = s.in_position
    /\ pos_side' = s.pos_side
    /\ entry_price' = s.entry_price
    /\ sl_price' = s.sl_price
    /\ tp_price' = s.tp_price
    /\ entry_time' = s.entry_time
    /\ last_atr_pips' = s.last_atr_pips
    /\ risk_pips_entry' = s.risk_pips_entry
    /\ all_trades' = s.all_trades

StepV2(x) ==
    /\ SetLocals(LoopBodyV2(instrument, Locals, x, i, prev_flags))
    /\ m15' = LastBars(Append(m15, x.bar), KeepBars(engine))
    /\ prev_flags' = ShiftedFlags(x)
    /\ i' = i + 1

StepV3(x) ==
    /\ SetLocals(LoopBodyV3(instrument, Locals, x, i, Append(m15, x.bar)))
    /\ m15' = LastBars(Append(m15, x.bar), KeepBars(engine))
    /\ prev_flags' = prev_flags
    /\ i' = i + 1

BacktestBarV2 ==
    LET LoopRowsV2(ts) ==
            LET \* the mood flags a higher timeframe can show, through mood_flags
                HtfFlags(metrics) ==
                    {LET f == mood_flags(m.volRs, m.rngRs, m.strength, d = "bull", d = "bear", m.bodyR)
                     IN  [fear |-> f.fearCap, hope |-> f.hopeConf, greed |-> f.greed] :
                        m \in metrics, d \in {"bull", "bear", "flat"}}
                LoopCandlesV2 == Candles({110080, 110480}, CloseLevels)
            IN
                          Rows(LoopCandlesV2, LoopAtrs, NansAt(ts), HtfCloses, HtfCloses, Ema200s,
                               StrongRow, HtfFlags(StrongRow), {NoFlags})
    IN
    /\ pc = "loop" /\ engine = "v2" /\ i < MaxBarsV2
    /\ \E x \in LoopRowsV2(i) : StepV2(x)
    /\ UNCHANGED <<engine, instrument, pc, cur, sig, nav>>
    /\ UNCHANGED <<cycle, fn, run, bridge>>

BacktestBarV3 ==
    LET LoopRowsV3(ts) ==
            LET LoopCandlesV3 == Candles({110000, 110080, 110480}, CloseLevels)
            IN
                          Rows(LoopCandlesV3, LoopAtrs, NansAt(ts), HtfCloses, HtfCloses, Ema200s,
                               NoMetrics, {NoFlags}, {NoFlags})
    IN
    /\ pc = "loop" /\ engine = "v3" /\ i < MaxBarsV3
    /\ \E x \in LoopRowsV3(i) : StepV3(x)
    /\ UNCHANGED <<engine, instrument, pc, cur, sig, nav>>
    /\ UNCHANGED <<cycle, fn, run, bridge>>

\* the end of the M15 series: `if in_position:` after the loop
BacktestEnd ==
    /\ pc = "loop" /\ i >= 1
    /\ pc' = "done"
    /\ all_trades' =
         IF ~in_position THEN all_trades
         ELSE IF engine = "v2"
         THEN Append(all_trades, TimeoutV2(instrument, Locals, m15[Len(m15)].close, i - 1))
         ELSE Append(all_trades, TimeoutV3(instrument, Locals, m15[Len(m15)].close, i - 1))
    /\ UNCHANGED <<engine, instrument, i, m15, prev_flags, in_position, pos_side,
                   entry_price, sl_price, tp_price, entry_time, last_atr_pips,
                   risk_pips_entry, cur, sig, nav>>
    /\ UNCHANGED <<cycle, fn, run, bridge>>

Init ==
    /\ engine \in {"v2", "v3"}
    /\ instrument = INSTRUMENTS[1]
    /\ pc = "loop"
    /\ i = 0
    /\ m15 = <<>>
    /\ prev_flags = NoShiftedFlags
    /\ in_position = FALSE /\ pos_side = "" /\ entry_price = 0 /\ sl_price = 0
    /\ tp_price = 0 /\ entry_time = NoTime /\ last_atr_pips = 0
    /\ risk_pips_entry = 0 /\ all_trades = <<>>
    /\ cur = NoRow
    /\ sig = NoSignalYet
    /\ nav = 0
    /\ NoCycle /\ NoFn /\ NoRun /\ NoBridge

Next == BacktestBarV2 \/ BacktestBarV3 \/ BacktestEnd

Spec == Init /\ [][Next]_vars

---------------------------------------------------------------------------
(* One bar seen by both paths: build_mes_signal on a series ending at row  *)
(* cur, and the backtest loop body on the same row with the same history,  *)
(* from a flat position.                                                   *)

ProbeCandlesV2 == Candles({110080}, {110000, 110080, 110160})
ProbeCandlesV3 == Candles({110000, 110080}, CloseLevels)
ProbeAtrs == {0, 70, 80, 240}
ProbeCloses1h == {110000, 110100, 110200}
ProbeHtfFlags == {NoFlags, [fear |-> TRUE, hope |-> FALSE, greed |-> FALSE],
                  [fear |-> FALSE, hope |-> TRUE, greed |-> TRUE]}

ProbeRowsV2 ==
    LET ProbeMetrics == MetricRows({105, 200}, {100, 140}, {90}, {90})
    IN
               Rows(ProbeCandlesV2, ProbeAtrs, {FALSE}, ProbeCloses1h, HtfCloses, Ema200s,
                    ProbeMetrics, ProbeHtfFlags, ProbeHtfFlags)

\* the shifted flags the previous row can have left
ProbePrevFlags == {ShiftedFlags(r) : r \in ProbeRowsV2}

\* what get_nav() can return
Navs == {0, 41, 1000}

InitSignal ==
    LET \* the M15 bars before cur that v3 reads: the live helper wants three bars in
        \* all, and nothing looks further back than KeepBars
        ProbeHistory == UNION {[1..n -> ProbeCandlesV3] : n \in (IMPULSE_LOOKBACK - 1)..KeepBars("v3")}
        ProbeRowsV3 == Rows(ProbeCandlesV3, ProbeAtrs, {FALSE}, ProbeCloses1h, HtfCloses, Ema200s,
                            NoMetrics, {NoFlags}, {NoFlags})
    IN
    /\ engine \in {"v2", "v3"}
    /\ instrument = INSTRUMENTS[1]
    /\ pc = "signal"
    /\ IF engine = "v2"
       THEN /\ m15 = <<>>
            /\ i = 1
            /\ prev_flags \in ProbePrevFlags
            /\ cur \in ProbeRowsV2
       ELSE /\ m15 \in ProbeHistory
            /\ i = Len(m15)
            /\ prev_flags = NoShiftedFlags
            /\ cur \in ProbeRowsV3
    /\ in_position = FALSE /\ pos_side = "" /\ entry_price = 0 /\ sl_price = 0
    /\ tp_price = 0 /\ entry_time = NoTime /\ last_atr_pips = 0
    /\ risk_pips_entry = 0 /\ all_trades = <<>>
    /\ nav = 0
    /\ sig = NoSignalYet
    /\ NoCycle /\ NoFn /\ NoRun /\ NoBridge

\* cmd_auto: nav = get_nav(); sig = build_mes_signal(inst, nav)
BuildSignalV2 ==
    /\ pc = "signal" /\ engine = "v2"
    /\ \E v \in Navs :
          /\ nav' = v
          /\ sig' = build_mes_signal_v2(instrument, v, cur, prev_flags)
    /\ pc' = "replay"
    /\ UNCHANGED <<engine, instrument, i, m15, prev_flags, in_position, pos_side,
                   entry_price, sl_price, tp_price, entry_time, last_atr_pips,
                   risk_pips_entry, all_trades, cur>>
    /\ UNCHANGED <<cycle, fn, run, bridge>>

BuildSignalV3 ==
    /\ pc = "signal" /\ engine = "v3"
    /\ \E v \in Navs, nav_now \in Navs :
          /\ nav' = v
          /\ sig' = build_mes_signal_v3(instrument, v, Append(m15, cur.bar), cur, nav_now)
    /\ pc' = "replay"
    /\ UNCHANGED <<engine, instrument, i, m15, prev_flags, in_position, pos_side,
                   entry_price, sl_price, tp_price, entry_time, last_atr_pips,
                   risk_pips_entry, all_trades, cur>>
    /\ UNCHANGED <<cycle, fn, run, bridge>>

\* the backtest loop body on the same row
ReplayBarV2 ==
    /\ pc = "replay" /\ engine = "v2"
    /\ StepV2(cur)
    /\ pc' = "replayed"
    /\ UNCHANGED <<engine, instrument, cur, sig, nav>>
    /\ UNCHANGED <<cycle, fn, run, bridge>>

ReplayBarV3 ==
    /\ pc = "replay" /\ engine = "v3"
    /\ StepV3(cur)
    /\ pc' = "replayed"
    /\ UNCHANGED <<engine, instrument, cur, sig, nav>>
    /\ UNCHANGED <<cycle, fn, run, bridge>>

NextSignal == BuildSignalV2 \/ BuildSignalV3 \/ ReplayBarV2 \/ ReplayBarV3

SpecSignal == InitSignal /\ [][NextSignal]_vars

---------------------------------------------------------------------------
(* A function called on its own: the v3 impulse filter on a three-bar      *)
(* window and on its price mirror, and ssi_from_moods on six flags.        *)

\* no backtest and no evaluation in progress
NoBacktest ==
    /\ i = 0 /\ m15 = <<>> /\ prev_flags = NoShiftedFlags
    /\ in_position = FALSE /\ pos_side = "" /\ entry_price = 0 /\ sl_price = 0
    /\ tp_price = 0 /\ entry_time = NoTime /\ last_atr_pips = 0
    /\ risk_pips_entry = 0 /\ all_trades = <<>>
    /\ cur = NoRow /\ sig = NoSignalYet /\ nav = 0

backtest == <<i, m15, prev_flags, in_position, pos_side, entry_price, sl_price,
              tp_price, entry_time, last_atr_pips, risk_pips_entry, all_trades,
              cur, sig, nav>>

InitFn ==
    LET FnInputs ==
            LET FnAtrPips == {8, 24}
                FnWindows ==
                    LET FnCandles ==
                            LET FnLevels == {110000, 110080, 110160, 110240}
                            IN
                                     Candles(FnLevels, FnLevels)
                    IN
                             [1..IMPULSE_LOOKBACK -> FnCandles]
            IN
            [f : {"impulse_filter"}, w : FnWindows, atr_pips : FnAtrPips]
                \cup [f : {"ssi_from_moods"}, flags : [1..6 -> BOOLEAN]]
    IN
    /\ engine = "v3"
    /\ instrument = INSTRUMENTS[1]
    /\ pc = "call"
    /\ fn_in \in FnInputs
    /\ fn_out = <<>>
    /\ NoBacktest /\ NoCycle /\ NoRun /\ NoBridge

CallImpulseFilter ==
    LET MirrorWindow(w) ==
            LET \* the window reflected in price about the middle of FnLevels
                MirrorBar(b) ==
                    [open |-> 220240 - b.open, high |-> 220240 - b.low,
                     low |-> 220240 - b.high, close |-> 220240 - b.close]
            IN
                           [k \in DOMAIN w |-> MirrorBar(w[k])]
    IN
    /\ pc = "call" /\ fn_in.f = "impulse_filter"
    /\ fn_out' = [window |-> impulse_filter(instrument, fn_in.w, fn_in.atr_pips),
                  mirrored |-> impulse_filter(instrument, MirrorWindow(fn_in.w),
                                              fn_in.atr_pips)]
    /\ pc' = "returned"
    /\ UNCHANGED <<engine, instrument, backtest, cycle, fn_in, run, bridge>>

CallSsiFromMoods ==
    /\ pc = "call" /\ fn_in.f = "ssi_from_moods"
    /\ fn_out' = ssi_from_moods(fn_in.flags[1], fn_in.flags[2], fn_in.flags[3],
                                fn_in.flags[4], fn_in.flags[5], fn_in.flags[6])
    /\ pc' = "returned"
    /\ UNCHANGED <<engine, instrument, backtest, cycle, fn_in, run, bridge>>

NextFn == CallImpulseFilter \/ CallSsiFromMoods

SpecFn == InitFn /\ [][NextFn]_vars

---------------------------------------------------------------------------
(* One call of build_mes_signal(instrument, nav): the candle fetches, then *)
(* the computation on the fetched series.  m15, prev_flags and cur are     *)
(* what the candle source holds; bars is how many bars each series has.    *)

\* a network call and how it ended
Call(op, arg, ok) == [op |-> op, arg |-> arg, ok |-> ok]

\* get_candles raises on an HTTP error and on an empty list of complete candles
\* the calls of build_mes_signal's fetch phase when the fetch of `failing` raises
fetch_calls(failing) ==
    IF failing = "H1" THEN <<Call("get_candles", "H1", FALSE)>>
    ELSE IF failing = "H4"
    THEN <<Call("get_candles", "H1", TRUE), Call("get_candles", "H4", FALSE)>>
    ELSE <<Call("get_candles", "H1", TRUE), Call("get_candles", "H4", TRUE),
           Call("get_candles", "M15", failing # "M15")>>

\* the v3 helper reaches its sizing block, where it calls get_nav()
reaches_sizing(inst, w, x) ==
    compute_breakout_for_last_bar(inst, w, x, 0).side # "NONE"

\* what get_nav() gives: the account NAV, or an exception
NavRaised == -1

InitBuild ==
    LET BuildNavs == {41}
        \* bars a fetched series can have: one short of fifty, or the count asked for
        BarCounts == {49, 500}
        BuildRowsV3 == Rows(ProbeCandlesV3, {80}, {FALSE}, HtfCloses, HtfCloses, Ema200s,
                            NoMetrics, {NoFlags}, {NoFlags})
        BuildRowsV2 == Rows(ProbeCandlesV2, {80}, {FALSE}, HtfCloses, HtfCloses, Ema200s,
                            StrongRow, ProbeHtfFlags, {NoFlags})
        BuildHistory ==
            LET BuildCandlesV3 == Candles({110000}, {110080, 110160, 110480})
            IN
                        UNION {[1..n -> BuildCandlesV3] : n \in 1..KeepBars("v3")}
    IN
    /\ engine \in {"v2", "v3"}
    /\ instrument = INSTRUMENTS[1]
    /\ pc = "fetch"
    /\ nav \in BuildNavs
    /\ IF engine = "v2"
       THEN /\ m15 = <<>>
            /\ prev_flags \in ProbePrevFlags
            /\ cur \in BuildRowsV2
            /\ bars \in [m15 : BarCounts, h1 : BarCounts, h4 : BarCounts]
       ELSE /\ m15 \in BuildHistory
            /\ prev_flags = NoShiftedFlags
            /\ cur \in BuildRowsV3
            /\ bars \in [m15 : BarCounts \cup {Len(m15) + 1}, h1 : BarCounts,
                         h4 : BarCounts]
    /\ i = 0
    /\ in_position = FALSE /\ pos_side = "" /\ entry_price = 0 /\ sl_price = 0
    /\ tp_price = 0 /\ entry_time = NoTime /\ last_atr_pips = 0
    /\ risk_pips_entry = 0 /\ all_trades = <<>>
    /\ sig = NoSignalYet
    /\ creds = TRUE /\ now = [wd |-> 0, hour |-> 0] /\ open_trades = NotRead
    /\ inst_idx = 1 /\ signals = <<>> /\ trades_sent = <<>> /\ calls = <<>>
    /\ NoFn /\ NoRun /\ NoBridge

buildFrame == <<engine, instrument, i, m15, prev_flags, in_position, pos_side,
                entry_price, sl_price, tp_price, entry_time, last_atr_pips,
                risk_pips_entry, all_trades, cur, nav, creds, now, open_trades,
                inst_idx, signals, trades_sent, bars, fn, run, bridge>>

\* build_mes_signal: h1, h4, m15 = get_candles(...)
FetchCandles ==
    /\ pc = "fetch"
    /\ \E failing \in {"none", "H1", "H4", "M15"} :
          /\ calls' = calls \o fetch_calls(failing)
          /\ pc' = IF failing = "none" THEN "compute" ELSE "raised"
    /\ UNCHANGED <<buildFrame, sig>>

\* v2 build_mes_signal after the fetches
ComputeV2 ==
    /\ pc = "compute" /\ engine = "v2"
    /\ sig' = build_mes_signal_v2(instrument, nav, cur, prev_flags)
    /\ pc' = "returned"
    /\ UNCHANGED <<buildFrame, calls>>

\* v3 build_mes_signal after the fetches: the helper calls get_nav() when it
\* gets as far as sizing
ComputeV3 ==
    LET GetNavOutcomes == Navs \cup {NavRaised}
    IN
    /\ pc = "compute" /\ engine = "v3"
    /\ LET w == Append(m15, cur.bar)
       IN  IF ~reaches_sizing(instrument, w, cur)
           THEN /\ sig' = build_mes_signal_v3(instrument, nav, w, cur, 0)
                /\ calls' = calls
                /\ pc' = "returned"
           ELSE \E r \in GetNavOutcomes :
                  IF r = NavRaised
                  THEN /\ sig' = sig
                       /\ calls' = Append(calls, Call("get_nav", "", FALSE))
                       /\ pc' = "raised"
                  ELSE /\ sig' = build_mes_signal_v3(instrument, nav, w, cur, r)
                       /\ calls' = Append(calls, Call("get_nav", "", TRUE))
                       /\ pc' = "returned"
    /\ UNCHANGED buildFrame

NextBuild == FetchCandles \/ ComputeV2 \/ ComputeV3

SpecBuild == InitBuild /\ [][NextBuild]_vars

---------------------------------------------------------------------------
(* cmd_auto: one auto cycle.  creds and now are the environment the cycle  *)
(* finds; calls is the log of the network calls it makes.                  *)

MAX_OPEN_TRADES == 3

\* trading_window_open(): wd is datetime.weekday() (Monday 0 .. Sunday 6)
trading_window_open_always(wd, hour) == TRUE
trading_window_open(wd, hour) ==
    IF wd = 6 THEN hour >= 14
    ELSE IF 0 <= wd /\ wd <= 3 THEN TRUE
    ELSE IF wd = 4 THEN hour < 14
    ELSE FALSE

\* send_telegram(message): TRUE when it returns normally.  mode is what the
\* call meets: Telegram not configured, a post that goes through, a post
\* that raises.
TelegramModes == {"not configured", "posted", "post raises"}
send_telegram_raising(mode) == mode # "post raises"
send_telegram(mode) ==
    IF mode = "not configured" THEN TRUE     \* return before any post
    ELSE IF mode = "post raises" THEN TRUE   \* except Exception: pass
    ELSE TRUE

\* actionable = [s for s in signals if s.side in ("BUY","SELL") and s.units > 0]
IsActionable(s) == s.side \in {"BUY", "SELL"} /\ s.units > 0
actionable_unsliced(sigs, ot) == SelectSeq(sigs, IsActionable)
actionable(sigs, ot) ==
    LET a == SelectSeq(sigs, IsActionable)
        slots_left == Max2(0, MAX_OPEN_TRADES - ot)
    IN  SubSeq(a, 1, Min2(Len(a), slots_left))

AutoNavOutcomes == {41, NavRaised}
FailingFetches == {"none", "H1"}
\* what the candle source holds for an instrument
AutoRowsV2 == Rows(Candles({110080}, {110160}), {80}, {FALSE}, {110200}, {110200},
                   Ema200s, StrongRow, {[fear |-> FALSE, hope |-> TRUE, greed |-> TRUE]},
                   {NoFlags})
AutoPrevFlags == {NoShiftedFlags, [NoShiftedFlags EXCEPT !.fear15 = TRUE]}
AutoRowsV3 == Rows(Candles({110000}, {110000, 110160}), {80}, {FALSE}, {110200}, {110200},
                   Ema200s, NoMetrics, {NoFlags}, {NoFlags})
AutoHistory == [1..(IMPULSE_LOOKBACK - 1) -> Candles({110000}, {110080})]

InitAuto ==
    LET \* the moments the cycle can start at
        AutoClock == {[wd |-> 6, hour |-> 13], [wd |-> 6, hour |-> 14], [wd |-> 0, hour |-> 14],
                      [wd |-> 3, hour |-> 14], [wd |-> 4, hour |-> 13], [wd |-> 4, hour |-> 14],
                      [wd |-> 5, hour |-> 14]}
    IN
    /\ engine \in {"v2", "v3"}
    /\ instrument = INSTRUMENTS[1]
    /\ pc = "auto"
    /\ creds \in BOOLEAN
    /\ now \in AutoClock
    /\ nav = NotRead /\ open_trades = NotRead
    /\ inst_idx = 1 /\ signals = <<>> /\ trades_sent = <<>> /\ calls = <<>>
    /\ bars = NoBars
    /\ i = 0 /\ m15 = <<>> /\ prev_flags = NoShiftedFlags
    /\ in_position = FALSE /\ pos_side = "" /\ entry_price = 0 /\ sl_price = 0
    /\ tp_price = 0 /\ entry_time = NoTime /\ last_atr_pips = 0
    /\ risk_pips_entry = 0 /\ all_trades = <<>>
    /\ cur = NoRow /\ sig = NoSignalYet
    /\ NoFn /\ NoRun /\ NoBridge

autoFrame == <<engine, instrument, i, m15, prev_flags, in_position, pos_side,
               entry_price, sl_price, tp_price, entry_time, last_atr_pips,
               risk_pips_entry, all_trades, cur, sig, creds, now, bars, fn,
               run, bridge>>

\* cmd_auto up to the scan: credentials, trading window, NAV, open positions
Preconditions ==
    LET \* what get_open_trade_count() gives: a count, or an exception
        CountRaised == -2
        OpenCountOutcomes == {0, 2, MAX_OPEN_TRADES, CountRaised}
    IN
    /\ pc = "auto"
    /\ \E t \in TelegramModes, n \in AutoNavOutcomes, c \in OpenCountOutcomes :
          LET tg == Call("send_telegram", t, send_telegram(t))
              after == IF send_telegram(t) THEN "done" ELSE "crashed"
              gn == Call("get_nav", "", n # NavRaised)
              gc == Call("get_open_trade_count", "", c # CountRaised)
          IN  IF ~creds \/ ~trading_window_open(now.wd, now.hour)
              THEN /\ calls' = calls \o <<tg>>
                   /\ pc' = after
                   /\ UNCHANGED <<nav, open_trades>>
              ELSE IF n = NavRaised
              THEN /\ calls' = calls \o <<gn, tg>>
                   /\ pc' = after
                   /\ UNCHANGED <<nav, open_trades>>
              ELSE IF c = CountRaised
              THEN /\ calls' = calls \o <<gn, gc, tg>>
                   /\ pc' = after
                   /\ nav' = n
                   /\ UNCHANGED open_trades
              ELSE IF c >= MAX_OPEN_TRADES
              THEN /\ calls' = calls \o <<gn, gc, tg>>
                   /\ pc' = after
                   /\ nav' = n /\ open_trades' = c
              ELSE /\ calls' = calls \o <<gn, gc>>
                   /\ pc' = "scan"
                   /\ nav' = n /\ open_trades' = c
    /\ UNCHANGED <<autoFrame, inst_idx, signals, trades_sent>>

\* where the scan goes after the instrument at inst_idx
AfterScan == IF inst_idx = Len(INSTRUMENTS) THEN "dispatch" ELSE "scan"

\* v2 cmd_auto, one pass of `for inst in INSTRUMENTS`
ScanInstrumentV2 ==
    /\ pc = "scan" /\ engine = "v2"
    /\ \E failing \in FailingFetches, x \in AutoRowsV2, pf \in AutoPrevFlags :
          /\ calls' = calls \o fetch_calls(failing)
          /\ signals' = IF failing = "none"
                        THEN Append(signals, build_mes_signal_v2(INSTRUMENTS[inst_idx],
                                                                 nav, x, pf))
                        ELSE signals
    /\ inst_idx' = inst_idx + 1
    /\ pc' = AfterScan
    /\ UNCHANGED <<autoFrame, nav, open_trades, trades_sent>>

\* v3 cmd_auto, one pass of `for inst in INSTRUMENTS`
ScanInstrumentV3 ==
    /\ pc = "scan" /\ engine = "v3"
    /\ \E failing \in FailingFetches, h \in AutoHistory, x \in AutoRowsV3,
          r \in AutoNavOutcomes :
          LET inst == INSTRUMENTS[inst_idx]
              w == Append(h, x.bar)
          IN  IF failing # "none"
              THEN /\ calls' = calls \o fetch_calls(failing)
                   /\ signals' = signals
              ELSE IF ~reaches_sizing(inst, w, x)
              THEN /\ calls' = calls \o fetch_calls("none")
                   /\ signals' = Append(signals, build_mes_signal_v3(inst, nav, w, x, 0))
              ELSE IF r = NavRaised
              THEN /\ calls' = calls \o fetch_calls("none")
                                    \o <<Call("get_nav", "", FALSE)>>
                   /\ signals' = signals
              ELSE /\ calls' = calls \o fetch_calls("none")
                                    \o <<Call("get_nav", "", TRUE)>>
                   /\ signals' = Append(signals, build_mes_signal_v3(inst, nav, w, x, r))
    /\ inst_idx' = inst_idx + 1
    /\ pc' = AfterScan
    /\ UNCHANGED <<autoFrame, nav, open_trades, trades_sent>>

\* one pass of `for sig in actionable`
Dispatch ==
    LET \* send_to_bridge returns a result string and never raises
        BridgeResults == {"[BRIDGE] 200", "[BRIDGE] ERROR"}
    IN
    /\ pc = "dispatch"
    /\ Len(trades_sent) < Len(actionable(signals, open_trades))
    /\ \E result \in BridgeResults :
          LET s == actionable(signals, open_trades)[Len(trades_sent) + 1]
          IN  /\ trades_sent' = Append(trades_sent, [sig |-> s, result |-> result])
              /\ calls' = Append(calls, Call("send_to_bridge", s.instrument,
                                             result = "[BRIDGE] 200"))
    /\ UNCHANGED <<autoFrame, pc, nav, open_trades, inst_idx, signals>>

\* the summary message at the end of the cycle
NotifyEnd ==
    /\ pc = "dispatch"
    /\ Len(trades_sent) = Len(actionable(signals, open_trades))
    /\ \E t \in TelegramModes :
          /\ calls' = Append(calls, Call("send_telegram", t, send_telegram(t)))
          /\ pc' = IF send_telegram(t) THEN "done" ELSE "crashed"
    /\ UNCHANGED <<autoFrame, nav, open_trades, inst_idx, signals, trades_sent>>

NextAuto == Preconditions \/ ScanInstrumentV2 \/ ScanInstrumentV3 \/ Dispatch \/ NotifyEnd

SpecAuto == InitAuto /\ [][NextAuto]_vars

---------------------------------------------------------------------------
(* run_backtest(days, pair) as a whole: the window, the instrument list and *)
(* the loop over it.  Bar times are positions in the series the candle     *)
(* source holds (0 for its first bar); runs keeps what each finished run   *)
(* printed, so that two runs on the same series can be compared.           *)

MaxRuns == 2

\* bars in the series of an instrument, and bars in `days`
BarsPerSeries(eng) == IF eng = "v3" THEN 5 ELSE 3
WindowBars(eng) == BarsPerSeries(eng) - 1

\* m15 = m15[(m15.index >= start) & (m15.index <= end)]
WindowFrom(start) == Max2(start, 0)

\* the locals as the loop over one instrument's bars finds them
loop_start_kept(s) == s
loop_start(s) == [FlatLocals EXCEPT !.all_trades = s.all_trades]

\* the windowed M15 rows of the instrument at inst_idx
CurWindow ==
    LET Window(rows, start, end) ==
            LET lo == WindowFrom(start)
                hi == Min2(end, Len(rows) - 1)
            IN  IF lo > hi THEN <<>> ELSE SubSeq(rows, lo + 1, hi + 1)
        InstIndex(inst) == CHOOSE k \in 1..Len(INSTRUMENTS) : INSTRUMENTS[k] = inst
    IN
    Window(series[InstIndex(inst_list[inst_idx])], end_ts - WindowBars(engine), end_ts)

AfterInstrument == IF inst_idx = Len(inst_list) THEN "run_end" ELSE "fetch"

InitRun ==
    LET \* the series an instrument can have: an entry on the second bar of the window
        \* that is stopped out on the last bar, or an entry on the last bar
        RunSeries(eng) ==
            LET \* an aligned row with a 1H ATR of 8 pips and 1H/4H closes at c_htf
                RowOf(o, c, c_htf, m, f1) ==
                    CHOOSE r \in Rows(Candles({o}, {c}), {80}, {FALSE}, {c_htf}, {c_htf}, Ema200s,
                                      m, {f1}, {NoFlags}) : TRUE
                FlatRow  == RowOf(110000, 110000, 110200, NoMetrics, NoFlags)
                FallRow  == RowOf(110160, 110000, 110200, NoMetrics, NoFlags)
                Up16Row  == RowOf(110000, 110160, 110200, NoMetrics, NoFlags)
                Up8Row   == RowOf(110000, 110080, 110200, NoMetrics, NoFlags)
                QuietRow == RowOf(110080, 110080, 110200, NoMetrics, NoFlags)
                DropRow  == RowOf(110160, 110000, 110200, StrongRow, NoFlags)
                HopeRow  == RowOf(110080, 110160, 110200, StrongRow,
                                  [fear |-> FALSE, hope |-> TRUE, greed |-> TRUE])
                FearRow  == RowOf(110080, 110080, 110200, StrongRow,
                                  [fear |-> TRUE, hope |-> FALSE, greed |-> FALSE])
            IN
            IF eng = "v2"
            THEN {<<FearRow, HopeRow, DropRow>>, <<QuietRow, FearRow, HopeRow>>}
            ELSE {<<Up8Row, Up8Row, Up8Row, Up16Row, FallRow>>,
                  <<FlatRow, Up8Row, Up8Row, Up8Row, Up16Row>>}
    IN
    /\ engine \in {"v2", "v3"}
    /\ series \in [1..Len(INSTRUMENTS) -> RunSeries(engine)]
    /\ inst_list = <<>> /\ end_ts = 0 /\ runs = <<>>
    /\ instrument = INSTRUMENTS[1]
    /\ pc = "run_start"
    /\ NoBacktest /\ NoCycle /\ NoFn /\ NoBridge

runFrame == <<engine, cur, sig, nav, creds, now, open_trades, signals, trades_sent,
              bars, fn, series, runs, bridge>>

\* run_backtest up to the loop over inst_list
RunStart ==
    LET \* inst_list = [pair] if pair else INSTRUMENTS
        RunLists == {INSTRUMENTS, <<INSTRUMENTS[2]>>}
        \* end = datetime.now(UTC): at the last bar of the series, or one bar later
        RunClocks(eng) == {BarsPerSeries(eng) - 1, BarsPerSeries(eng)}
    IN
    /\ pc = "run_start"
    /\ \E e \in RunClocks(engine), l \in RunLists :
          /\ end_ts' = e
          /\ inst_list' = l
    /\ inst_idx' = 1
    /\ SetLocals(FlatLocals)
    /\ i' = 0 /\ m15' = <<>> /\ prev_flags' = NoShiftedFlags
    /\ pc' = "fetch"
    /\ UNCHANGED <<runFrame, instrument, calls>>

\* `for instrument in inst_list:` up to the loop over the bars
RunFetch ==
    LET \* the calls of run_backtest's fetches (M15, H1, H4) when that of `failing` raises
        run_fetch_calls(failing) ==
            IF failing = "M15" THEN <<Call("get_candles", "M15", FALSE)>>
            ELSE IF failing = "H1"
            THEN <<Call("get_candles", "M15", TRUE), Call("get_candles", "H1", FALSE)>>
            ELSE <<Call("get_candles", "M15", TRUE), Call("get_candles", "H1", TRUE),
                   Call("get_candles", "H4", failing # "H4")>>
    IN
    /\ pc = "fetch"
    /\ \E failing \in FailingFetches :
          /\ calls' = calls \o run_fetch_calls(failing)
          /\ IF failing # "none"
             THEN /\ pc' = "aborted"
                  /\ UNCHANGED <<instrument, inst_idx, backtest>>
             ELSE IF CurWindow = <<>>
             THEN /\ pc' = AfterInstrument
                  /\ inst_idx' = inst_idx + 1
                  /\ instrument' = inst_list[inst_idx]
                  /\ UNCHANGED backtest
             ELSE /\ pc' = "bars"
                  /\ instrument' = inst_list[inst_idx]
                  /\ SetLocals(loop_start(Locals))
                  /\ i' = 0 /\ m15' = <<>> /\ prev_flags' = NoShiftedFlags
                  /\ UNCHANGED <<inst_idx, cur, sig, nav>>
    /\ UNCHANGED <<engine, creds, now, open_trades, signals, trades_sent, bars, fn,
                   run, bridge>>

RunBarV2 ==
    /\ pc = "bars" /\ engine = "v2" /\ i < Len(CurWindow)
    /\ StepV2(CurWindow[i + 1])
    /\ UNCHANGED <<runFrame, instrument, pc, inst_idx, calls, inst_list, end_ts>>

RunBarV3 ==
    /\ pc = "bars" /\ engine = "v3" /\ i < Len(CurWindow)
    /\ StepV3(CurWindow[i + 1])
    /\ UNCHANGED <<runFrame, instrument, pc, inst_idx, calls, inst_list, end_ts>>

\* after the last bar of an instrument: `if in_position:` and on to the next
RunInstrumentEnd ==
    LET \* the trades of inst carry the times of their bars: position in the window
        \* plus the time of the window's first bar
        WithBarTimes(trades, inst, first_ts) ==
            [k \in 1..Len(trades) |->
                IF trades[k].instrument = inst
                THEN [trades[k] EXCEPT !.entry_time = @ + first_ts, !.exit_time = @ + first_ts]
                ELSE trades[k]]
    IN
    /\ pc = "bars" /\ i = Len(CurWindow)
    /\ LET last_close == m15[Len(m15)].close
           closed == IF ~in_position THEN all_trades
                     ELSE IF engine = "v2"
                     THEN Append(all_trades, TimeoutV2(instrument, Locals, last_close, i - 1))
                     ELSE Append(all_trades, TimeoutV3(instrument, Locals, last_close, i - 1))
       IN  all_trades' = WithBarTimes(closed, instrument,
                                      WindowFrom(end_ts - WindowBars(engine)))
    /\ inst_idx' = inst_idx + 1
    /\ pc' = AfterInstrument
    /\ UNCHANGED <<runFrame, instrument, i, m15, prev_flags, in_position, pos_side,
                   entry_price, sl_price, tp_price, entry_time, last_atr_pips,
                   risk_pips_entry, calls, inst_list, end_ts>>

\* the ledger is summarised and printed
RunEnd ==
    /\ pc = "run_end"
    /\ runs' = Append(runs, [end |-> end_ts, inst_list |-> inst_list,
                             ledger |-> all_trades])
    /\ pc' = IF Len(runs) + 1 < MaxRuns THEN "run_start" ELSE "finished"
    /\ UNCHANGED <<engine, instrument, backtest, cycle, fn, series, inst_list, end_ts,
                   bridge>>

NextRun == RunStart \/ RunFetch \/ RunBarV2 \/ RunBarV3 \/ RunInstrumentEnd \/ RunEnd

SpecRun == InitRun /\ [][NextRun]_vars

---------------------------------------------------------------------------
(* The OANDA bridge: oanda_bridge.lambda_handler and the engines' dispatch *)

\* oanda_bridge.py module constants (their defaults)
MAX_UNITS == 100000
BRIDGE_RISK_PERCENT == 1
MIN_PIPS == 3

\* a payload value float() cannot convert
NotANumber == -999
\* get_account_balance() when the summary query does not answer 200
BalanceNone == -1
\* the instruments query gave no instrument list
NoInstruments == 0

jget(d, key, default) == IF key \in DOMAIN d THEN d[key] ELSE default

\* str(...).upper().strip() on the messages of the model
upper_strip(s) == IF s = "buy" THEN "BUY" ELSE IF s = " sell " THEN "SELL" ELSE s

\* the instrument after upper().strip(), the inserted "_" and replace("/", "_")
normalised(s) ==
    IF s = "EURUSD" THEN "EUR_USD"
    ELSE IF s = "EUR/USD" THEN "EUR__USD"
    ELSE s

\* `_, quote = instrument.upper().split("_")` succeeds: exactly one "_"
splits_in_two(inst) == inst \in {"EUR_USD", "GBP_USD", "USD_JPY"}

\* the pip size in price units of 1/PriceScale; loc is the pipLocation OANDA
\* answered, or NoInstruments
get_pip_size(inst, loc) ==
    LET is_jpy_pair(pair) == pair \in {"USD_JPY"}
        RECURSIVE Pow10(_)
        Pow10(n) == IF n = 0 THEN 1 ELSE 10 * Pow10(n - 1)
    IN  IF loc # NoInstruments
        THEN Pow10(5 + loc)
        ELSE IF is_jpy_pair(inst) THEN PriceScale \div 100 ELSE PriceScale \div 10000

signed_units_buy(side, raw_units) == Abs(raw_units)

signed_units(side, raw_units) == IF side = "BUY" THEN Abs(raw_units) ELSE -Abs(raw_units)

\* returns <<sl, tp>>; pip is what get_pip_size gave
adjust_price_for_min_distance(entry, sl, tp, pip) ==
    LET mindist == MIN_PIPS * pip
    IN  IF tp > entry /\ sl < entry
        THEN <<IF (entry - sl) < mindist THEN entry - mindist ELSE sl,
               IF (tp - entry) < mindist THEN entry + mindist ELSE tp>>
        ELSE IF tp < entry /\ sl > entry
        THEN <<IF (sl - entry) < mindist THEN entry + mindist ELSE sl,
               IF (entry - tp) < mindist THEN entry - mindist ELSE tp>>
        ELSE <<sl, tp>>

\* int(risk_usd / (pips_risk * pvpu)), with pips_risk = dist / pip_s and
\* pvpu = pip_s * rate, prices in units of 1/PriceScale; 0 when either is 0
calculate_units(inst, side, entry, sl, balance, risk_pct, pip_s) ==
    LET quote_of(pair) == IF pair = "USD_JPY" THEN "JPY" ELSE "USD"
        clamp_units(units) == Max2(-MAX_UNITS, Min2(MAX_UNITS, units))
        \* the quote currency is the base currency for the pairs of the model
        get_quote_to_usd_rate(quote) == 1
        dist == Abs(entry - sl)
        rate == get_quote_to_usd_rate(quote_of(inst))
        pvpu_nonzero == pip_s * rate # 0
        raw == IF dist # 0 /\ pvpu_nonzero
               THEN (balance * risk_pct * (PriceScale \div 100) * pip_s)
                        \div (dist * pip_s * rate)
               ELSE 0
    IN  clamp_units(signed_units(side, raw))

\* the validation of a BUY/SELL request
invalid_payload_no_tp(side, inst, entry, sl, tp) ==
    side \notin {"BUY", "SELL"} \/ inst = "" \/ entry <= 0 \/ sl <= 0

invalid_payload(side, inst, entry, sl, tp) ==
    side \notin {"BUY", "SELL"} \/ inst = "" \/ entry <= 0 \/ sl <= 0 \/ tp <= 0

\* env("DRY_RUN", "false").lower() == "true"
is_dry_run_never(v) == FALSE

is_dry_run(v) == (IF v = "" THEN "false" ELSE v) \in {"true", "TRUE", "True"}

Response(code, text) == [statusCode |-> code, text |-> text]
Handled(code, text, cs, lg) == [resp |-> Response(code, text), calls |-> cs, logged |-> lg]

\* the /webhook branch of lambda_handler on the request body, in environment e
webhook(body, e) ==
    LET TradeLog(inst, side, entry, sl, tp, units, risk_pct, status) ==
            [instrument |-> inst, side |-> side, entry |-> entry, sl |-> sl, tp |-> tp,
             units |-> units, risk_pct |-> risk_pct, status |-> status]
        Order(inst, units, sl, tp) ==
            [instrument |-> inst, units |-> units, sl |-> sl, tp |-> tp]
        \* submit_order's ok, from the answer of the orders endpoint
        submit_ok(answer) == answer.code = 201 /\ answer.transaction
        payload == body.payload
        side == upper_strip(jget(payload, "message", ""))
        inst == normalised(jget(payload, "instrument", ""))
        entry == jget(payload, "entry", 0)
        sl == jget(payload, "sl", 0)
        tp == jget(payload, "tp", 0)
        risk_pct == jget(payload, "risk_pct", BRIDGE_RISK_PERCENT)
        pip == get_pip_size(inst, e.pipLocation)
        pip_call == Call("instruments", inst, e.pipLocation # NoInstruments)
        bal_call == Call("summary", "", e.balance # BalanceNone)
        adj == adjust_price_for_min_distance(entry, sl, tp, pip)
        units == calculate_units(inst, side, entry, adj[1], e.balance, risk_pct, pip)
        sized == <<bal_call, pip_call, pip_call, pip_call>>
        order == Order(inst, units, adj[1], adj[2])
        entryLog(status) ==
            <<TradeLog(inst, side, entry, adj[1], adj[2], units, risk_pct, status)>>
    IN  IF ~body.valid
        THEN Handled(400, "Invalid JSON", <<>>, <<>>)
        ELSE IF NotANumber \in {entry, sl, tp, risk_pct}
        THEN Handled(500, "error", <<>>, <<>>)
        ELSE IF side = "CLOSE"
        THEN IF inst = ""
             THEN Handled(400, "Instrument required for CLOSE", <<>>, <<>>)
             ELSE IF e.close_code # 200
             THEN Handled(400, "error", <<Call("close", inst, FALSE)>>, <<>>)
             ELSE Handled(200, "ok", <<Call("close", inst, TRUE)>>, <<>>)
        ELSE IF invalid_payload(side, inst, entry, sl, tp)
        THEN Handled(400, "Invalid payload", <<>>, <<>>)
        ELSE IF e.balance = BalanceNone
        THEN Handled(502, "OANDA auth failed", <<bal_call>>, <<>>)
        ELSE IF ~splits_in_two(inst)
        THEN Handled(500, "error", sized, <<>>)
        ELSE IF units = 0
        THEN Handled(400, "Units=0", sized, <<>>)
        ELSE IF is_dry_run(e.DRY_RUN)
        THEN Handled(200, "dry-run", sized, entryLog("DRY-RUN"))
        ELSE IF ~submit_ok(e.submit)
        THEN Handled(400, "error", Append(sized, Call("orders", order, FALSE)),
                     entryLog("REJECTED"))
        ELSE Handled(201, "ok", Append(sized, Call("orders", order, TRUE)),
                     entryLog("SUBMITTED"))

\* path.endswith(...) on the paths of the model
ends_with(path, suffix) ==
    \/ suffix = "/ping" /\ path \in {"/ping", "/prod/ping"}
    \/ suffix = "/webhook" /\ path \in {"/webhook", "/prod/webhook"}

lambda_handler(event, e) ==
    IF event.test_sns
    THEN Handled(200, "sns-test-ok", <<>>, <<>>)
    ELSE IF event.httpMethod = "GET" /\ ends_with(event.path, "/ping")
    THEN Handled(200, "ok", <<Call("summary", "", e.balance # BalanceNone)>>, <<>>)
    ELSE IF event.httpMethod = "POST" /\ ends_with(event.path, "/webhook")
    THEN webhook(event.body, e)
    ELSE Handled(404, "Invalid route", <<>>, <<>>)

\* mes_v2_auto / mes_v3_auto send_to_bridge: the JSON it posts; the prices are
\* multiples of 1/PriceScale, which round(x, 5) leaves as they are
send_to_bridge(message, inst, price, sl, tp, units) ==
    [message |-> message, instrument |-> inst, price |-> price, sl |-> sl, tp |-> tp,
     qty |-> units]

\* v33_scan_cli build_alert_payload
build_alert_payload(s) ==
    [source |-> "CLI_V33", strategy |-> "V3.3_HYBRID_4H_1H_15M",
     instrument |-> s.instrument, side |-> s.side, order_type |-> "market",
     risk_percent |-> RISK_PERCENT, entry_price |-> s.entry_price,
     stop_loss_price |-> s.sl_price, take_profit_price |-> s.tp_price,
     comment |-> s.quality]

Body(payload) == [valid |-> TRUE, payload |-> payload]
WebhookEvent(payload) ==
    [test_sns |-> FALSE, httpMethod |-> "POST", path |-> "/webhook", body |-> Body(payload)]

\* either an alert arrives at the bridge, or an engine is about to dispatch a signal
InitBridge ==
    LET \* the signals an engine dispatches
        DispatchedSignals(eng) ==
            LET \* the Signal v33 build_signal returns for a side it found, from the entry and
                \* the ATR in pips: tp in the 30..40 pip band, sl at half of it
                v33_signal(inst, side, entry, atr_pips) ==
                    LET tp_pips == Max2(30, Min2(40, (atr_pips * 12) \div 10))
                        sl_pips == tp_pips \div 2
                    IN  [instrument |-> inst, side |-> side, entry_price |-> entry,
                         sl_price |-> price_from_pips(inst, entry, sl_pips, IF side = "BUY" THEN "down" ELSE "up"),
                         tp_price |-> price_from_pips(inst, entry, tp_pips, IF side = "BUY" THEN "up" ELSE "down"),
                         atr_pips |-> atr_pips, tp_pips |-> tp_pips, sl_pips |-> sl_pips,
                         quality |-> "HIGH", reason |-> ""]
            IN
            IF eng = "v2"
            THEN {s \in {build_mes_signal_v2(INSTRUMENTS[1], 41, x, pf) :
                             x \in AutoRowsV2, pf \in AutoPrevFlags} : IsActionable(s)}
            ELSE IF eng = "v3"
            THEN {s \in {build_mes_signal_v3(INSTRUMENTS[1], 41, Append(h, x.bar), x, 41) :
                             h \in AutoHistory, x \in AutoRowsV3} : IsActionable(s)}
            ELSE {v33_signal(INSTRUMENTS[1], side, 110160, a) : side \in {"BUY", "SELL"},
                                                               a \in {8, 30}}
        Events ==
            LET Payloads ==
                    LET Targets == {110010, 110100, 109990, 109900}
                        Stops == {109990, 109950, 110000, 110010, 0}
                        Entries == {110000, 0, NotANumber}
                        AlertInstruments == {"EUR_USD", "EURUSD", "EUR/USD", ""}
                        \* the alerts posted to /webhook
                        Messages == {"BUY", "SELL", "buy", "CLOSE", "HOLD"}
                    IN
                    [message : Messages, instrument : AlertInstruments, entry : Entries, sl : Stops,
                     tp : Targets]
                    \cup [message : {"BUY", "SELL"}, instrument : {"EUR_USD"}, entry : {110000},
                          sl : Stops, tp : Targets, risk_pct : {5, NotANumber}]
                    \cup [instrument : {"EUR_USD"}, entry : {110000}, sl : {109950}, tp : {110100}]
                    \cup [message : {"BUY", "CLOSE"}, entry : {110000}, sl : {109950}, tp : {110100}]
                    \cup [message : {"BUY", "SELL"}, instrument : {"EUR_USD"}, sl : {109950}, tp : {110100}]
                    \cup [message : {"BUY", "SELL"}, instrument : {"EUR_USD"}, entry : {110000},
                          tp : {110100, 109900}]
                    \cup [message : {"BUY", "SELL"}, instrument : {"EUR_USD"}, entry : {110000},
                          sl : {109950, 110050}]
                    \cup [message : {"CLOSE"}, instrument : {"EUR_USD"}]
                OtherEvents ==
                    [test_sns : {TRUE}, httpMethod : {"POST"}, path : {"/webhook"},
                     body : {Body([message |-> "BUY"])}]
                    \cup [test_sns : {FALSE}, httpMethod : {"GET", "POST"},
                          path : {"/ping", "/prod/ping", "/other"}, body : {Body([message |-> "BUY"])}]
                    \cup [test_sns : {FALSE}, httpMethod : {"GET"}, path : {"/webhook"},
                          body : {Body([message |-> "BUY"])}]
                    \cup [test_sns : {FALSE}, httpMethod : {"POST"}, path : {"/prod/webhook"},
                          body : {[valid |-> FALSE, payload |-> [message |-> "BUY"]]}]
            IN
                  {WebhookEvent(p) : p \in Payloads} \cup OtherEvents
        Envs ==
            LET CloseCodes == {200, 404}
                SubmitAnswers == {[code |-> 201, transaction |-> TRUE],
                                  [code |-> 201, transaction |-> FALSE],
                                  [code |-> 0, transaction |-> FALSE]}
                PipLocations == {NoInstruments, -4}
                Balances == {BalanceNone, 0, 1000}
                \* what the handler's calls meet
                DryRunValues == {"true", "TRUE", "false"}
            IN
                [DRY_RUN : DryRunValues, balance : Balances, pipLocation : PipLocations,
                 submit : SubmitAnswers, close_code : CloseCodes]
    IN
    /\ engine \in {"alert", "v2", "v3", "v33"}
    /\ IF engine = "alert"
       THEN /\ pc = "handle" /\ sig = NoSignalYet
            /\ req \in [event : Events, env : Envs]
       ELSE /\ pc = "send" /\ sig \in DispatchedSignals(engine)
            /\ req \in [env : Envs]
    /\ resp = <<>> /\ logged = <<>>
    /\ instrument = INSTRUMENTS[1]
    /\ i = 0 /\ m15 = <<>> /\ prev_flags = NoShiftedFlags
    /\ in_position = FALSE /\ pos_side = "" /\ entry_price = 0 /\ sl_price = 0
    /\ tp_price = 0 /\ entry_time = NoTime /\ last_atr_pips = 0
    /\ risk_pips_entry = 0 /\ all_trades = <<>>
    /\ cur = NoRow /\ nav = 0
    /\ NoCycle /\ NoFn /\ NoRun

bridgeFrame == <<engine, instrument, i, m15, prev_flags, in_position, pos_side,
                 entry_price, sl_price, tp_price, entry_time, last_atr_pips,
                 risk_pips_entry, all_trades, cur, sig, nav, creds, now, open_trades,
                 inst_idx, signals, trades_sent, bars, fn, run>>

\* mes_v2_auto / mes_v3_auto cmd_auto: send_to_bridge posts the signal
SendToBridge ==
    /\ pc = "send" /\ engine \in {"v2", "v3"}
    /\ req' = [event |-> WebhookEvent(send_to_bridge(sig.side, sig.instrument,
                                                     sig.entry_price, sig.sl_price,
                                                     sig.tp_price, sig.units)),
               env |-> req.env]
    /\ pc' = "handle"
    /\ UNCHANGED <<bridgeFrame, calls, resp, logged>>

\* v33_scan_cli cmd_auto: the payload of build_alert_payload is posted
SendAlertV33 ==
    /\ pc = "send" /\ engine = "v33"
    /\ req' = [event |-> WebhookEvent(build_alert_payload(sig)), env |-> req.env]
    /\ pc' = "handle"
    /\ UNCHANGED <<bridgeFrame, calls, resp, logged>>

\* oanda_bridge lambda_handler on the event
LambdaHandler ==
    /\ pc = "handle"
    /\ LET h == lambda_handler(req.event, req.env)
       IN  /\ resp' = h.resp
           /\ calls' = calls \o h.calls
           /\ logged' = logged \o h.logged
    /\ pc' = "responded"
    /\ UNCHANGED <<bridgeFrame, req>>

NextBridge == SendToBridge \/ SendAlertV33 \/ LambdaHandler

SpecBridge == InitBridge /\ [][NextBridge]_vars

---------------------------------------------------------------------------
(* Properties of run_backtest (specification Spec) *)

LastTrade == all_trades[Len(all_trades)]
LastBar == m15[Len(m15)]

\* the bar reaches the stop level and the target level of a position
BothTouched(side, b, sl, tp) ==
    IF side = "BUY" THEN b.low <= sl /\ b.high >= tp
                    ELSE b.high >= sl /\ b.low <= tp

\* C1: when a bar processed while a position is open touches both the stop
\* and the target, the position is closed on that bar by one ledger record
\* with result "SL" whose exit price is the stop level, in both engines and
\* for both sides.
C1_StopBeforeTarget ==
    [][(in_position /\ i' = i + 1
          /\ BothTouched(pos_side, m15'[Len(m15')], sl_price, tp_price))
        => /\ Len(all_trades') = Len(all_trades) + 1
           /\ SubSeq(all_trades', 1, Len(all_trades)) = all_trades
           /\ all_trades'[Len(all_trades')].result = "SL"
           /\ all_trades'[Len(all_trades')].exit_price = sl_price
           /\ all_trades'[Len(all_trades')].exit_time = i
           /\ ~in_position']_vars

\* a position was just closed on a bar that touched both of its levels
C1_Witness ==
    /\ pc = "loop" /\ all_trades # <<>>
    /\ LastTrade.exit_time = i - 1
    /\ LastTrade.result = "SL"
    /\ LastTrade.side = "SELL"
    /\ BothTouched(LastTrade.side, LastBar, LastTrade.sl_price, LastTrade.tp_price)

\* C2: when the series ends with a position open, exactly one record is
\* appended for it, with result "TIMEOUT", exit price the close of the last
\* bar and exit time the last timestamp (so an entry made on the last bar
\* is closed at its own entry price); nothing is appended when flat, and no
\* TIMEOUT record exists before the end of the series.
C2_TimeoutAtEnd ==
    [][/\ (pc = "loop" => \A k \in 1..Len(all_trades) : all_trades[k].result # "TIMEOUT")
       /\ (pc = "loop" /\ pc' = "done") =>
             IF in_position
             THEN /\ Len(all_trades') = Len(all_trades) + 1
                  /\ SubSeq(all_trades', 1, Len(all_trades)) = all_trades
                  /\ all_trades'[Len(all_trades')].result = "TIMEOUT"
                  /\ all_trades'[Len(all_trades')].exit_price = LastBar.close
                  /\ all_trades'[Len(all_trades')].exit_time = i - 1
                  /\ all_trades'[Len(all_trades')].entry_time = entry_time
                  /\ all_trades'[Len(all_trades')].entry_price = entry_price
                  /\ all_trades'[Len(all_trades')].side = pos_side
             ELSE all_trades' = all_trades]_vars

\* the series ended on the bar on which the position was entered
C2_Witness ==
    /\ pc = "done" /\ in_position /\ entry_time = i - 1
    /\ all_trades # <<>>
    /\ LastTrade.result = "TIMEOUT"
    /\ LastTrade.exit_price = LastTrade.entry_price

\* C3: the position is flat, long or short; while a position is open no
\* entry is made (the open position's side, prices and entry time stay as
\* they are until it is closed); a ledger record is appended only when an
\* open position is closed, it carries that position's entry, and the
\* instrument is flat afterwards unless the series has ended: so the
\* entries made are the ledger records plus the position still open.
C3_OnePosition ==
    [][/\ (in_position => pos_side \in {"BUY", "SELL"})
       /\ (~in_position => all_trades' = all_trades)
       /\ (in_position =>
             \/ /\ in_position' /\ all_trades' = all_trades
                /\ <<pos_side', entry_price', sl_price', tp_price', entry_time'>>
                     = <<pos_side, entry_price, sl_price, tp_price, entry_time>>
             \/ /\ Len(all_trades') = Len(all_trades) + 1
                /\ SubSeq(all_trades', 1, Len(all_trades)) = all_trades
                /\ all_trades'[Len(all_trades')].entry_time = entry_time
                /\ all_trades'[Len(all_trades')].entry_price = entry_price
                /\ all_trades'[Len(all_trades')].side = pos_side
                /\ all_trades'[Len(all_trades')].result \in {"SL", "TP", "TIMEOUT"}
                /\ (pc' = "done" \/ ~in_position'))]_vars

\* a second position is open after the first one was closed
C3_Witness ==
    /\ pc = "loop" /\ in_position /\ all_trades # <<>>
    /\ LastTrade.exit_time < entry_time

\* the risk of a trade at its entry, in pips: the entry-to-stop distance
RiskAtEntry(t) == pips_diff(t.instrument, Abs(t.entry_price - t.sl_price))

\* C4: every ledger record's rr is its signed pip move divided by the risk
\* in pips at entry (rr is kept as <<numerator, denominator>>).
C4_RrOverEntryRisk ==
    \A k \in 1..Len(all_trades) :
        all_trades[k].rr[1] * RiskAtEntry(all_trades[k])
            = all_trades[k].pips * all_trades[k].rr[2]

C4_RrOverEntryRiskV3 == engine = "v3" => C4_RrOverEntryRisk

---------------------------------------------------------------------------
(* Properties of one evaluation bar (specification SpecSignal) *)

NoEntry == <<"NONE", 0, 0, 0>>

\* what the live builder decided on the bar
LiveDecision ==
    IF sig.side \in {"BUY", "SELL"}
    THEN <<sig.side, sig.entry_price, sig.sl_price, sig.tp_price>>
    ELSE NoEntry

\* what the backtest loop body decided on the same bar, from flat
BacktestDecision ==
    IF in_position THEN <<pos_side, entry_price, sl_price, tp_price>> ELSE NoEntry

\* C5: on the same bar with the same history, from a flat position, the
\* backtest opens a BUY (SELL) with an entry, stop and target exactly when
\* build_mes_signal returns BUY (SELL) with the same entry, stop and target,
\* in both engines.
C5_BacktestReplaysLive ==
    pc = "replayed" => BacktestDecision = LiveDecision

\* the same statement for the mood-reversal engine alone
C5_BacktestReplaysLiveV2 ==
    (pc = "replayed" /\ engine = "v2") => BacktestDecision = LiveDecision

\* C6: every BUY signal and backtest BUY entry has stop < entry < target,
\* every SELL has target < entry < stop, the target distance is twice the
\* stop distance; in v2 the stop distance is the 1H ATR of the bar, in v3
\* the stop is the lowest low (BUY) or highest high (SELL) of the two bars
\* of the swing window the path reads.
C6_StopEntryTarget ==
    [][(pc = "replay" /\ pc' = "replayed") =>
        LET w == Append(m15, cur.bar)
            Ordered(side, e, sl, tp) ==
                IF side = "BUY"
                THEN sl < e /\ e < tp /\ tp - e = 2 * (e - sl)
                ELSE tp < e /\ e < sl /\ e - tp = 2 * (sl - e)
            StopV2(e, sl) == Abs(e - sl) = cur.atr1h_a
            StopV3(side, sl, b1, b2) ==
                IF side = "BUY" THEN sl = Min2(b1.low, b2.low)
                                ELSE sl = Max2(b1.high, b2.high)
        IN  /\ sig.side \in {"BUY", "SELL"} =>
                /\ Ordered(sig.side, sig.entry_price, sig.sl_price, sig.tp_price)
                /\ engine = "v2" => StopV2(sig.entry_price, sig.sl_price)
                /\ engine = "v3" =>
                       StopV3(sig.side, sig.sl_price, BarBack(w, 2), BarBack(w, 1))
            /\ in_position' =>
                /\ Ordered(pos_side', entry_price', sl_price', tp_price')
                /\ engine = "v2" => StopV2(entry_price', sl_price')
                /\ engine = "v3" =>
                       StopV3(pos_side', sl_price', BarBack(w, 3), BarBack(w, 2))]_vars

\* a v3 BUY signal and a v3 backtest BUY entry on the same bar
C6_Witness ==
    /\ pc = "replayed" /\ engine = "v3"
    /\ sig.side = "BUY" /\ in_position /\ pos_side = "BUY"

\* risk_amount / per_unit_risk as numerator and denominator
UnitsRawNum == nav * RISK_PERCENT * (PriceScale \div 100)
UnitsRawDen == Abs(sig.entry_price - sig.sl_price)
UnitsMinOf(inst) == IF inst \in JpyInstruments THEN 100 ELSE 10000

\* C7 as stated: units is the clamped quotient itself.
C7_UnitsExactClamp ==
    (pc \in {"replay", "replayed"} /\ sig.side \in {"BUY", "SELL"} /\ nav > 0) =>
        LET num == UnitsRawNum
            den == UnitsRawDen
            lo == UnitsMinOf(sig.instrument)
        IN  IF num < lo * den THEN sig.units = lo
            ELSE IF num > 15000 * den THEN sig.units = 15000
            ELSE sig.units * den = num

\* C7: for a BUY/SELL signal, a positive nav and a positive stop distance,
\* units is the integer part of clamp(risk_amount / per_unit_risk, units_min,
\* 15000), so it never exceeds 15000 and never falls below units_min.
C7_UnitsClamp ==
    (pc \in {"replay", "replayed"} /\ sig.side \in {"BUY", "SELL"} /\ nav > 0) =>
        LET num == UnitsRawNum
            den == UnitsRawDen
            lo == UnitsMinOf(sig.instrument)
        IN  /\ den > 0
            /\ sig.units = Max2(lo, Min2(15000, num \div den))
            /\ sig.units <= 15000
            /\ sig.units >= lo

\* a signal whose quotient lies strictly inside the clamp and is not whole
C7_Witness ==
    /\ pc = "replay" /\ sig.side \in {"BUY", "SELL"} /\ nav > 0
    /\ UnitsRawNum > 10000 * UnitsRawDen
    /\ UnitsRawNum < 15000 * UnitsRawDen
    /\ UnitsRawNum % UnitsRawDen # 0

\* C8: a returned signal has side BUY, SELL or NONE; NONE carries 0 units,
\* BUY and SELL carry strictly positive units.
C8_SideAndUnits ==
    pc \in {"replay", "replayed"} =>
        /\ sig.side \in {"BUY", "SELL", "NONE"}
        /\ sig.side = "NONE" => sig.units = 0
        /\ sig.side \in {"BUY", "SELL"} => sig.units > 0

\* a BUY or SELL signal built with an empty account
C8_Witness ==
    pc = "replay" /\ sig.side \in {"BUY", "SELL"} /\ nav = 0

\* close against EMA200 on the aligned 1H and 4H series at the bar
AboveBoth == cur.close1h_a > cur.ema1h_a /\ cur.close4h_a > cur.ema4h_a
BelowBoth == cur.close1h_a < cur.ema1h_a /\ cur.close4h_a < cur.ema4h_a

\* C9: a BUY signal or backtest BUY entry needs close > EMA200 on both the
\* 1H and the 4H series at the bar, a SELL needs close < EMA200 on both,
\* and with neither the signal is NONE and the backtest does not enter.
C9_TrendAlignment ==
    /\ pc \in {"replay", "replayed"} =>
          /\ sig.side = "BUY" => AboveBoth
          /\ sig.side = "SELL" => BelowBoth
          /\ ~AboveBoth /\ ~BelowBoth => sig.side = "NONE"
    /\ pc = "replayed" =>
          /\ (in_position /\ pos_side = "BUY") => AboveBoth
          /\ (in_position /\ pos_side = "SELL") => BelowBoth
          /\ ~AboveBoth /\ ~BelowBoth => ~in_position

\* a bar with the 1H close above and the 4H close below EMA200 was
\* evaluated by both paths, with the volatility floor met
C9_Witness ==
    /\ pc = "replayed" /\ ~AboveBoth /\ ~BelowBoth
    /\ cur.close1h_a > cur.ema1h_a /\ cur.close4h_a < cur.ema4h_a
    /\ cur.atr1h_a >= 80
    /\ sig.side = "NONE" /\ ~in_position

\* C10: when the 1H ATR at the bar is below 8 pips (zero included) the
\* signal is NONE and the backtest opens no position on the bar.
C10_AtrFloor ==
    /\ (pc \in {"replay", "replayed"} /\ cur.atr1h_a < 8 * PipStep(instrument))
          => sig.side = "NONE"
    /\ (pc = "replayed" /\ cur.atr1h_a < 8 * PipStep(instrument))
          => ~in_position

\* a bar with a 7-pip ATR and the trend aligned was evaluated by both paths
C10_Witness ==
    /\ pc = "replayed" /\ cur.atr1h_a = 70 /\ AboveBoth
    /\ sig.side = "NONE" /\ ~in_position

\* the conditions of a mood reversal at the bar, given the flags of the bar before
ReversalUp(pf, x) ==
    /\ pf.fear15 \/ pf.fear1h_a \/ pf.fear4h_a
    /\ Flags15(x).hopeConf
    /\ ssi_series(x) >= 10
    /\ x.volRs15 >= 110 /\ x.rngRs15 >= 110
ReversalDown(pf, x) ==
    /\ pf.greed15 \/ pf.greed1h_a \/ pf.greed4h_a
    /\ Flags15(x).indecFear \/ Flags15(x).fearCap
    /\ ssi_series(x) <= -10
    /\ x.volRs15 >= 110 /\ x.rngRs15 >= 110

\* C11: in v2 a BUY (signal or backtest entry) needs capitulation-fear on
\* the previous bar of some timeframe, confident-hope on the current M15
\* bar, sentiment >= 1.0 and both M15 smoothed ratios >= 1.1; a SELL needs
\* greed on the previous bar of some timeframe, indecision-fear or
\* capitulation-fear on the current M15 bar, sentiment <= -1.0 and both
\* ratios >= 1.1.
C11_MoodReversal ==
    [][(pc = "replay" /\ pc' = "replayed" /\ engine = "v2") =>
          /\ sig.side = "BUY" => ReversalUp(prev_flags, cur)
          /\ sig.side = "SELL" => ReversalDown(prev_flags, cur)
          /\ (in_position' /\ pos_side' = "BUY") => ReversalUp(prev_flags, cur)
          /\ (in_position' /\ pos_side' = "SELL") => ReversalDown(prev_flags, cur)]_vars

\* a v2 SELL signal and a v2 backtest SELL entry on the same bar
C11_Witness ==
    /\ pc = "replayed" /\ engine = "v2"
    /\ sig.side = "SELL" /\ in_position /\ pos_side = "SELL"

---------------------------------------------------------------------------
(* Properties of single functions (specification SpecFn) *)

AllBullish(w) == \A k \in DOMAIN w : w[k].close > w[k].open
AllBearish(w) == \A k \in DOMAIN w : w[k].close < w[k].open

\* net move of the window in the direction of its bars, in price units
DirectedMove(w) ==
    IF AllBullish(w) THEN w[Len(w)].close - w[1].open
                     ELSE w[1].open - w[Len(w)].close

RangeSum(w) == (w[1].high - w[1].low) + (w[2].high - w[2].low) + (w[3].high - w[3].low)

\* C12: the impulse filter passes exactly when the three bars are all
\* bullish or all bearish, the net move in the direction of the bars is at
\* least 10 pips and the average range is at least 0.4 x ATR; an
\* all-bearish window with a net downward move of at least 10 pips passes
\* exactly when its price mirror passes.
C12_ImpulseSymmetric ==
    (pc = "returned" /\ fn_in.f = "impulse_filter") =>
        LET w == fn_in.w
            step == PipStep(instrument)
        IN  /\ fn_out.window <=>
                  /\ AllBullish(w) \/ AllBearish(w)
                  /\ DirectedMove(w) >= 10 * step
                  /\ 10 * RangeSum(w) >= 4 * 3 * fn_in.atr_pips * step
            /\ (AllBearish(w) /\ DirectedMove(w) >= 10 * step)
                  => (fn_out.window <=> fn_out.mirrored)

\* the same statement restricted to windows that are not all bearish
C12_ImpulseBullish ==
    (pc = "returned" /\ fn_in.f = "impulse_filter" /\ ~AllBearish(fn_in.w)) =>
        LET w == fn_in.w
            step == PipStep(instrument)
        IN  fn_out.window <=>
                /\ AllBullish(w)
                /\ DirectedMove(w) >= 10 * step
                /\ 10 * RangeSum(w) >= 4 * 3 * fn_in.atr_pips * step

\* the sub-score of one timeframe, in tenths: 1.5 if hope, minus 1.5 if fear
SubScore(h, f) == (IF h THEN 15 ELSE 0) - (IF f THEN 15 ELSE 0)

\* C20: for every combination of the six mood flags ssi_from_moods returns
\* the arithmetic mean of the three per-timeframe sub-scores, and the result
\* lies in [-3, 3] (in tenths: -30..30).
C20_SsiIsMean ==
    (pc = "returned" /\ fn_in.f = "ssi_from_moods")
    => /\ 3 * fn_out = SubScore(fn_in.flags[1], fn_in.flags[2])
                       + SubScore(fn_in.flags[3], fn_in.flags[4])
                       + SubScore(fn_in.flags[5], fn_in.flags[6])
       /\ -30 <= fn_out /\ fn_out <= 30

\* hope on all three timeframes and no fear: the score is 1.5
C20_Witness ==
    /\ pc = "returned" /\ fn_in.f = "ssi_from_moods"
    /\ \A k \in {1, 3, 5} : fn_in.flags[k] /\ ~fn_in.flags[k + 1]
    /\ fn_out = 15

---------------------------------------------------------------------------
(* More properties of one evaluation bar (specification SpecSignal) *)

\* C13: in v3 the structural break compares the close of bar i with the
\* highest high and the lowest low of bars i-3 and i-2, in the live helper
\* and in the backtest loop: a BUY needs close > that high, a SELL needs
\* close < that low.
C13_SwingWindow ==
    [][(pc = "replay" /\ pc' = "replayed" /\ engine = "v3") =>
        LET w == Append(m15, cur.bar)
            BreakUp == /\ Len(w) >= 4
                       /\ cur.bar.close > Max2(BarBack(w, 3).high, BarBack(w, 2).high)
            BreakDown == /\ Len(w) >= 4
                         /\ cur.bar.close < Min2(BarBack(w, 3).low, BarBack(w, 2).low)
        IN  /\ sig.side = "BUY" => BreakUp
            /\ sig.side = "SELL" => BreakDown
            /\ (in_position' /\ pos_side' = "BUY") => BreakUp
            /\ (in_position' /\ pos_side' = "SELL") => BreakDown]_vars

\* the backtest half of the statement
C13_SwingWindowBacktest ==
    [][(pc = "replay" /\ pc' = "replayed" /\ engine = "v3") =>
        LET w == Append(m15, cur.bar)
        IN  /\ (in_position' /\ pos_side' = "BUY") =>
                  /\ Len(w) >= 4
                  /\ cur.bar.close > Max2(BarBack(w, 3).high, BarBack(w, 2).high)
            /\ (in_position' /\ pos_side' = "SELL") =>
                  /\ Len(w) >= 4
                  /\ cur.bar.close < Min2(BarBack(w, 3).low, BarBack(w, 2).low)]_vars

---------------------------------------------------------------------------
(* Properties of one call of build_mes_signal (specification SpecBuild) *)

\* the three candle fetches of the call all succeeded
Fetched == Len(calls) >= 3 /\ \A k \in 1..3 : calls[k].ok

\* C14: when any of the three fetched series has fewer than about 50 bars,
\* the builder does not raise and returns side NONE with a reason that names
\* the insufficient history.
C14_ShortHistoryIsNone ==
    (pc \in {"returned", "raised"} /\ Fetched
        /\ (bars.m15 < 50 \/ bars.h1 < 50 \/ bars.h4 < 50))
    => /\ pc = "returned"
       /\ sig.side = "NONE"
       /\ sig.reason = "Not enough M15 candles"

\* C18: once the candle series are fetched, the computation of the signal
\* makes no network call and returns a signal.
C18_NoCallInComputation ==
    [][pc = "compute" => (calls' = calls /\ pc' = "returned")]_vars

\* the v2 builder's computation makes no network call
C18_NoCallInComputationV2 ==
    [][(pc = "compute" /\ engine = "v2") => (calls' = calls /\ pc' = "returned")]_vars

---------------------------------------------------------------------------
(* Properties of one auto cycle (specification SpecAuto) *)

\* the instruments the scan has passed
Scanned == 1..(inst_idx - 1)

\* C15: in the scan of cmd_auto every instrument passed has its signal, in
\* the order of INSTRUMENTS, a failure while fetching or evaluating one
\* having become a NONE signal with a reason.
C15_FailureBecomesNone ==
    pc \in {"scan", "dispatch", "done"}
    => /\ Len(signals) = inst_idx - 1
       /\ \A k \in Scanned :
             /\ signals[k].instrument = INSTRUMENTS[k]
             /\ (signals[k].side = "NONE" => signals[k].reason # "")

\* the scan itself goes on to the next instrument whatever happened to one
C15_ScanGoesOn ==
    [][pc = "scan" => (inst_idx' = inst_idx + 1 /\ pc' \in {"scan", "dispatch"})]_vars

BridgePosts == SelectSeq(calls, LAMBDA c : c.op = "send_to_bridge")
CandleFetches == SelectSeq(calls, LAMBDA c : c.op = "get_candles")

\* C16: the orders dispatched in one cycle never exceed MAX_OPEN_TRADES minus
\* the open-position count read at the start; with that count at
\* MAX_OPEN_TRADES or more nothing is built or dispatched; and every
\* dispatched signal is posted to the bridge once, whatever the result.
C16_DispatchWithinSlots ==
    /\ open_trades = NotRead => trades_sent = <<>>
    /\ open_trades # NotRead
         => Len(trades_sent) <= Max2(0, MAX_OPEN_TRADES - open_trades)
    /\ open_trades >= MAX_OPEN_TRADES
         => signals = <<>> /\ trades_sent = <<>> /\ CandleFetches = <<>>
    /\ Len(BridgePosts) = Len(trades_sent)
    /\ \A j, k \in 1..Len(trades_sent) :
          /\ BridgePosts[k].arg = trades_sent[k].sig.instrument
          /\ j # k => trades_sent[j].sig.instrument # trades_sent[k].sig.instrument

\* two actionable signals, one free slot, and the one order sent came back
\* with an error
C16_Witness ==
    /\ pc = "done" /\ open_trades = 2
    /\ Len(SelectSeq(signals, IsActionable)) >= 2
    /\ Len(trades_sent) = 1
    /\ trades_sent[1].result = "[BRIDGE] ERROR"

\* the window of the cycle's start, as Sunday 14:00 to Friday 14:00
WindowOpen ==
    \/ now.wd = 6 /\ now.hour >= 14
    \/ now.wd \in 0..3
    \/ now.wd = 4 /\ now.hour < 14

NavQueryFailed == Len(calls) >= 1 /\ calls[1].op = "get_nav" /\ ~calls[1].ok
CountQueryFailed ==
    Len(calls) >= 2 /\ calls[2].op = "get_open_trade_count" /\ ~calls[2].ok

\* C17: with credentials missing, the trading window closed, or the NAV or
\* open-position query failing, cmd_auto returns without fetching a candle,
\* building a signal or dispatching an order.
C17_PreconditionsFirst ==
    (pc # "auto" /\ (~creds \/ ~WindowOpen \/ NavQueryFailed \/ CountQueryFailed))
    => /\ pc = "done"
       /\ signals = <<>> /\ trades_sent = <<>>
       /\ CandleFetches = <<>> /\ BridgePosts = <<>>

\* a cycle started on Friday at 14:00 with credentials present has returned
C17_Witness ==
    /\ pc = "done" /\ creds /\ now = [wd |-> 4, hour |-> 14]
    /\ calls = <<Call("send_telegram", "posted", TRUE)>>

\* the step has just called send_telegram
Notified == Len(calls') > Len(calls) /\ calls'[Len(calls')].op = "send_telegram"

\* C19: send_telegram returns normally whether Telegram is not configured or
\* the post raises, and the step of the cycle that calls it changes neither
\* the signals built nor the orders dispatched and completes the cycle.
C19_NotifyNeverFails ==
    [][Notified => /\ calls'[Len(calls')].ok
                   /\ signals' = signals /\ trades_sent' = trades_sent
                   /\ pc' = "done"]_vars

\* a cycle that dispatched an order is done although its summary post raised
C19_Witness ==
    /\ pc = "done" /\ Len(trades_sent) >= 1
    /\ calls[Len(calls)] = Call("send_telegram", "post raises", TRUE)

---------------------------------------------------------------------------
(* Properties of the ledger of one instrument (specification Spec) *)

\* C27: in an instrument's ledger every SL/TP trade ends strictly after its
\* entry, every trade after the first is entered strictly after the exit of
\* the one before, and a TIMEOUT trade is the last record of a finished run.
C27_LedgerChronological ==
    \A k \in 1..Len(all_trades) :
       LET t == all_trades[k]
       IN  /\ t.result \in {"SL", "TP"} => t.exit_time > t.entry_time
           /\ t.result = "TIMEOUT" => (k = Len(all_trades) /\ pc = "done"
                                          /\ t.exit_time >= t.entry_time)
           /\ k > 1 => t.entry_time > all_trades[k - 1].exit_time

\* a closed trade, then a later entry that the end of the data timed out
C27_Witness ==
    /\ pc = "done" /\ Len(all_trades) = 2
    /\ all_trades[1].result \in {"SL", "TP"}
    /\ all_trades[2].result = "TIMEOUT"
    /\ all_trades[2].entry_time = all_trades[1].exit_time + 1

\* the entry-to-stop distance of a trade, in pips
StopDistance(t) == pips_diff(t.instrument, Abs(t.entry_price - t.sl_price))

\* C28: an SL trade's pip move is minus its entry-to-stop distance and
\* strictly negative; a TP trade's pip move is 2.0 times that distance and
\* strictly positive.
C28_PipsOfStopAndTarget ==
    \A k \in 1..Len(all_trades) :
       LET t == all_trades[k]
       IN  /\ t.result = "SL" => (t.pips < 0 /\ t.pips = -StopDistance(t))
           /\ t.result = "TP" => (t.pips > 0 /\ t.pips = 2 * StopDistance(t))

\* the ledger holds a SELL that reached its target, two stop distances away
C28_Witness ==
    \E k \in 1..Len(all_trades) :
       /\ all_trades[k].result = "TP" /\ all_trades[k].side = "SELL"
       /\ all_trades[k].pips = 2 * StopDistance(all_trades[k])
       /\ StopDistance(all_trades[k]) > 0

---------------------------------------------------------------------------
(* Exclusive sides at one evaluation bar (specification SpecSignal) *)

CurAtrPips == pips_diff(instrument, cur.atr1h_a)
CurSeries == Append(m15, cur.bar)

\* C29: at an evaluation bar the up-trend and the down-trend are never both
\* true, and neither are the long and the short entry condition: in v2 the
\* sentiment cannot be >= 1.0 and <= -1.0, in v3 the close cannot be above
\* the swing high and below the swing low; a BUY is emitted only where the
\* short condition is false.
C29_SidesExclusive ==
    pc = "replay"
    => /\ ~(trend_up(cur) /\ trend_down(cur))
       /\ engine = "v2"
            => /\ ~(long_signal_bt_v2(cur, prev_flags, CurAtrPips)
                      /\ short_signal_bt_v2(cur, prev_flags, CurAtrPips))
               /\ ~(ssi_series(cur) >= SSI_ENTRY_THRESHOLD
                      /\ ssi_series(cur) <= -SSI_ENTRY_THRESHOLD)
               /\ sig.side = "BUY" => ~short_signal_bt_v2(cur, prev_flags, CurAtrPips)
       /\ engine = "v3"
            => /\ Len(CurSeries) >= 3
                    => ~(cur.bar.close > hi_swing_of(prior_live(CurSeries))
                           /\ cur.bar.close < lo_swing_of(prior_live(CurSeries)))
               /\ Len(CurSeries) >= 4
                    => ~(cur.bar.close > hi_swing_of(prior_bt(CurSeries))
                           /\ cur.bar.close < lo_swing_of(prior_bt(CurSeries)))
               /\ sig.side = "BUY" => ~trend_down(cur)

\* a v2 bar after both a fear and a greed bar, on which the short condition
\* alone is true and SELL is emitted
C29_Witness ==
    /\ pc = "replay" /\ engine = "v2"
    /\ was_fear_cap(prev_flags) /\ was_greed(prev_flags)
    /\ short_signal_bt_v2(cur, prev_flags, CurAtrPips)
    /\ sig.side = "SELL"

---------------------------------------------------------------------------
(* Properties of whole runs of run_backtest (specification SpecRun) *)

Finished == 1..Len(runs)
TradesOf(ledger, inst) == SelectSeq(ledger, LAMBDA t : t.instrument = inst)
InList(l, inst) == \E k \in 1..Len(l) : l[k] = inst

\* C21: two runs of run_backtest over the same instruments, on the same
\* candle series, print the same ledger whatever the time they are started at.
C21_SameLedger ==
    \A a, b \in Finished :
       runs[a].inst_list = runs[b].inst_list => runs[a].ledger = runs[b].ledger

\* two runs started at the same time print the same ledger
C21_SameLedgerSameClock ==
    \A a, b \in Finished :
       (runs[a].inst_list = runs[b].inst_list /\ runs[a].end = runs[b].end)
       => runs[a].ledger = runs[b].ledger

\* C22: the loop over an instrument's bars starts flat, and the trades a run
\* records for an instrument are the same whatever other instruments the run
\* goes through.
C22_InstrumentsIndependent ==
    /\ (pc = "bars" /\ i = 0)
         => /\ ~in_position /\ pos_side = "" /\ entry_time = NoTime
            /\ entry_price = 0 /\ sl_price = 0 /\ tp_price = 0
            /\ last_atr_pips = 0 /\ risk_pips_entry = 0
    /\ \A k \in 1..Len(all_trades) : InList(inst_list, all_trades[k].instrument)
    /\ \A a, b \in Finished :
          runs[a].end = runs[b].end
          => \A k \in 1..Len(INSTRUMENTS) :
                (InList(runs[a].inst_list, INSTRUMENTS[k])
                   /\ InList(runs[b].inst_list, INSTRUMENTS[k]))
                => TradesOf(runs[a].ledger, INSTRUMENTS[k])
                     = TradesOf(runs[b].ledger, INSTRUMENTS[k])

\* a run over all instruments in which the first one ended with its position
\* still open, and a run over the second instrument alone, started at the same
\* time: the second instrument has its one trade in both
C22_Witness ==
    /\ Len(runs) = 2
    /\ runs[1].inst_list = INSTRUMENTS /\ runs[2].inst_list = <<INSTRUMENTS[2]>>
    /\ runs[1].end = runs[2].end
    /\ \E t \in {runs[1].ledger[k] : k \in 1..Len(runs[1].ledger)} :
          t.instrument = INSTRUMENTS[1] /\ t.result = "TIMEOUT"
    /\ Len(TradesOf(runs[2].ledger, INSTRUMENTS[2])) = 1
    /\ TradesOf(runs[2].ledger, INSTRUMENTS[2])[1].result = "SL"

---------------------------------------------------------------------------
(* Properties of the bridge (specification SpecBridge) *)

\* the handler has answered a POST to /webhook
WebhookAnswered ==
    /\ pc = "responded" /\ ~req.event.test_sns
    /\ req.event.httpMethod = "POST" /\ ends_with(req.event.path, "/webhook")
\* the calls to the OANDA orders endpoint
OrdersPosted == SelectSeq(calls, LAMBDA c : c.op = "orders")
\* the pip size the bridge worked with
BridgePip(inst) == get_pip_size(inst, req.env.pipLocation)

\* C23: every order the webhook submits or reports as dry-run (each is logged
\* by log_trade) has its stop-loss and its take-profit at least 3 pips away
\* from the entry.
C23_StopAndTargetThreePipsAway ==
    WebhookAnswered
    => \A k \in 1..Len(logged) :
          LET t == logged[k]
          IN  /\ Abs(t.entry - t.sl) >= MIN_PIPS * BridgePip(t.instrument)
              /\ Abs(t.entry - t.tp) >= MIN_PIPS * BridgePip(t.instrument)

\* what lambda_handler reads from the body of the request
ReqPayload == req.event.body.payload
ReqSide == upper_strip(jget(ReqPayload, "message", ""))
ReqInstrument == normalised(jget(ReqPayload, "instrument", ""))
ReqEntry == jget(ReqPayload, "entry", 0)
ReqSl == jget(ReqPayload, "sl", 0)
ReqTp == jget(ReqPayload, "tp", 0)
ReqRiskPct == jget(ReqPayload, "risk_pct", BRIDGE_RISK_PERCENT)
\* the body is JSON and every number in it is a number
WellTyped ==
    /\ req.event.body.valid
    /\ NotANumber \notin {ReqEntry, ReqSl, ReqTp, ReqRiskPct}
\* a BUY/SELL request that passes the validation
ValidBuySell ==
    /\ WebhookAnswered /\ WellTyped
    /\ ReqSide \in {"BUY", "SELL"} /\ ReqInstrument # ""
    /\ ReqEntry > 0 /\ ReqSl > 0 /\ ReqTp > 0
\* the units of the order of a valid request
ReqUnits ==
    calculate_units(ReqInstrument, ReqSide, ReqEntry,
                    adjust_price_for_min_distance(ReqEntry, ReqSl, ReqTp,
                                                  BridgePip(ReqInstrument))[1],
                    req.env.balance, ReqRiskPct, BridgePip(ReqInstrument))
\* a valid request that gets as far as the order
ReachesOrder ==
    /\ ValidBuySell /\ req.env.balance # BalanceNone
    /\ splits_in_two(ReqInstrument) /\ ReqUnits # 0
DryRunSet == req.env.DRY_RUN \in {"true", "TRUE"}

\* C24 as stated: with DRY_RUN true every valid BUY/SELL request posts no
\* order, is logged as DRY-RUN and is answered 200 "dry-run"; without it at
\* most one order is posted per request.
C24_DryRunAlwaysAnswers200 ==
    /\ (ValidBuySell /\ DryRunSet)
         => /\ OrdersPosted = <<>>
            /\ resp = Response(200, "dry-run")
            /\ Len(logged) = 1 /\ logged[1].status = "DRY-RUN"
    /\ WebhookAnswered => Len(OrdersPosted) <= 1

\* C24, amended: with DRY_RUN true no valid BUY/SELL request posts an order;
\* if the balance query succeeds, the instrument is a pair and the units are
\* not 0, it is logged once as DRY-RUN and answered 200 "dry-run", otherwise it
\* is answered 502, 500 or 400 and nothing is logged. Whatever DRY_RUN is, at
\* most one order is posted per request.
C24_DryRunPostsNoOrder ==
    /\ (ValidBuySell /\ DryRunSet)
         => /\ OrdersPosted = <<>>
            /\ IF ReachesOrder
               THEN /\ resp = Response(200, "dry-run")
                    /\ Len(logged) = 1 /\ logged[1].status = "DRY-RUN"
                    /\ logged[1].units = ReqUnits
               ELSE /\ resp.statusCode \in {400, 500, 502}
                    /\ logged = <<>>
    /\ WebhookAnswered => Len(OrdersPosted) <= 1

\* a valid BUY answered as a dry run
C24_Witness ==
    /\ ValidBuySell /\ req.env.DRY_RUN = "true" /\ ReqSide = "BUY"
    /\ resp = Response(200, "dry-run")
    /\ Len(logged) = 1 /\ logged[1].status = "DRY-RUN"
    /\ OrdersPosted = <<>>

\* C25: the payload an engine posts for a BUY/SELL signal carries the side,
\* the instrument, the entry, the stop and the target under the names the
\* handler reads, and the handler does not answer it 400 "Invalid payload".
C25_DispatchAccepted ==
    (pc = "responded" /\ engine \in {"v2", "v3", "v33"})
    => /\ ReqSide = sig.side /\ ReqInstrument = sig.instrument
       /\ ReqEntry = sig.entry_price /\ ReqSl = sig.sl_price /\ ReqTp = sig.tp_price
       /\ resp # Response(400, "Invalid payload")

\* the request names no BUY/SELL/CLOSE side, or no instrument, or it is a
\* BUY/SELL whose entry, sl or tp is missing or not positive
InvalidRequest ==
    \/ ReqSide \notin {"BUY", "SELL", "CLOSE"}
    \/ ReqInstrument = ""
    \/ ReqSide # "CLOSE" /\ (ReqEntry <= 0 \/ ReqSl <= 0 \/ ReqTp <= 0)

SignedAndCapped(side, units) ==
    /\ units # 0 /\ Abs(units) <= MAX_UNITS
    /\ side = "BUY" => units > 0
    /\ side = "SELL" => units < 0
\* the stop the units are computed from
ReqAdjustedSl ==
    adjust_price_for_min_distance(ReqEntry, ReqSl, ReqTp, BridgePip(ReqInstrument))[1]

\* C30: the units of every order the bridge posts or logs are positive for BUY
\* and negative for SELL and never beyond MAX_UNITS; calculate_units gives 0,
\* and the request is answered 400 without an order, when the stop is at the
\* entry.
C30_UnitsSignedAndCapped ==
    WebhookAnswered
    => /\ \A k \in 1..Len(OrdersPosted) :
             /\ ReqSide \in {"BUY", "SELL"}
             /\ SignedAndCapped(ReqSide, OrdersPosted[k].arg.units)
       /\ \A k \in 1..Len(logged) :
             /\ logged[k].side = ReqSide
             /\ SignedAndCapped(logged[k].side, logged[k].units)
       /\ (ValidBuySell /\ req.env.balance # BalanceNone /\ splits_in_two(ReqInstrument))
            => /\ Abs(ReqUnits) <= MAX_UNITS
               /\ ReqUnits # 0 => SignedAndCapped(ReqSide, ReqUnits)
               /\ ReqAdjustedSl = ReqEntry
                    => /\ ReqUnits = 0
                       /\ resp = Response(400, "Units=0")
                       /\ OrdersPosted = <<>> /\ logged = <<>>

\* a SELL whose raw size is beyond the cap is posted with -MAX_UNITS
C30_Witness ==
    /\ WebhookAnswered /\ ReqSide = "SELL"
    /\ resp.statusCode = 201
    /\ Len(OrdersPosted) = 1 /\ OrdersPosted[1].arg.units = -MAX_UNITS
    /\ ReqRiskPct = 5

====
